---- MODULE Spec2Model ----
(***************************************************************************)
(* A model of the Dora runtime core: the shape / specialization layer      *)
(* (vm/specialize.rs, vm/tuples.rs), the specialization caches, the lazy   *)
(* compilation thunk (baseline/dora_compile.rs), the stop-the-world        *)
(* protocol (safepoint.rs, both generations of it) and the integer         *)
(* division sequence of the x64 macro assembler (masm/x64.rs).             *)
(*                                                                         *)
(* Each subsystem has its own variables and its own specification; the     *)
(* variables of the other subsystems stay at their initial value.          *)
(***************************************************************************)
EXTENDS Integers, Sequences, FiniteSets, TLC

VARIABLES
    shape_in,     \* shape layer: the request (definition, type arguments) being specialized
    shape_out,    \* shape layer: the computed instance, or NoShape before the call
    shape_edef,   \* shape layer: the EnumInstance whose variants get class instances
    shape_class_instances, \* shape layer: vm.class_instances
    shape_returned, \* shape layer: the calls for a variant index and the ids returned
    div_in,       \* division: the operation, mode, operand registers and operand values
    regs,         \* division: the register file
    zf,           \* division: the zero flag
    div_pc,       \* division: the position in the emitted sequence
    div_status,   \* division: "running", "done", the trap raised, or "fault" (#DE)
    specializations, \* caches: the four maps from key to instance id
    instances,    \* caches: struct_instances, enum_instances, class_instances
    write_lock,   \* caches: per map, the thread holding its write lock, or 0
    thread,       \* caches: per thread, its position in a call, the call and the id pushed
    calls_made,   \* caches: the number of calls begun
    returned,     \* caches: every (call, id) a call has returned
    pushed,       \* caches: every (call, id) pushed to a vector, in order
    cache_status, \* caches: "ok", or "panic" once an assertion failed
    stw_version,  \* stop-the-world: "runtime" or "legacy", the safepoint.rs modelled
    threads_len,  \* stop-the-world: the number of threads registered with the VM
    thread_state, \* stop-the-world: per thread, its ThreadState
    safepoint_requested, \* stop-the-world: per thread, the byte its polls read
    barrier,      \* stop-the-world: the barrier, armed and the count of stopped threads
    threads_lock, \* stop-the-world: the thread holding the lock on the thread list, or 0
    stw_pc,       \* stop-the-world: per thread, its position
    stw_locals,   \* stop-the-world: stop_threads' loop index and `running`
    vm_state,     \* stop-the-world: the VmState
    stops_begun,  \* stop-the-world: the number of stop_the_world calls begun
    found_running, \* stop-the-world: threads stop_threads found Running or Safepoint
    at_return,    \* stop-the-world: the thread states as a stop_the_world call returns
    stw_status,   \* stop-the-world: "ok", or "panic"
    call_masm,    \* direct calls: the caller as emitted (code, data segment, sites)
    call_mem,     \* direct calls: the data slots, by address
    caller,       \* direct calls: per thread, its position in a call sequence
    thunk_entries, \* direct calls: per site, the entries into the compiler thunk
    direct_entries, \* direct calls: per site, the calls that went to the function
    early_loads,  \* direct calls: per site, the loads made before the site's patch
    resolved,     \* direct calls: the sites patch_fct_call has patched
    calls_begun,  \* direct calls: the number of call sequences begun
    call_status,  \* direct calls: "ok", or what went wrong
    index_in,     \* bounds check: the version of the assembler, the registers and the values
    index_regs,   \* bounds check: the register file
    index_flags,  \* bounds check: the flags the last cmp set
    index_pc,     \* bounds check: the position in the emitted sequence
    index_status, \* bounds check: "running", "passed", or the trap raised
    masm_data,    \* assembler: the bytes emitted
    masm_labels,  \* assembler: per label, the position it is bound to
    masm_jumps,   \* assembler: the forward jumps to fix
    masm_refs,    \* assembler: the label references emitted (at, to, forward)
    masm_emits,   \* assembler: the number of emit calls made
    masm_status,  \* assembler: "open", "finalized", or "panic"
    start_in,     \* driver: the arguments, the functions of the program, the front-end errors
    start_pc,     \* driver: where start() is, or "exit", "abort", "panic"
    diag,         \* driver: the errors reported
    main_fct_id,  \* driver: what find_main returned
    fct_iter,     \* driver: the position of the loop in run_tests
    tests,        \* driver: the tests counted
    passed,       \* driver: the tests counted as passed
    executed,     \* driver: the functions run, in order
    stdout,       \* driver: the lines printed
    exit_code,    \* driver: the exit code, once the run has produced it
    old_free,     \* old generation: the free pointer of the old generation (AtomicUsize)
    old_pc,       \* old generation: each thread's position in OldGen::alloc
    old_locals,   \* old generation: size and old of each thread in alloc
    crossing_map, \* old generation: the first-object entry of each card
    old_allocs,   \* old generation: the calls of alloc that have returned, in order of return
    old_begun,    \* old generation: the number of calls of alloc begun
    pkg_table,    \* package: the symbol table of the package (name to symbol)
    pkg_table_lock, \* package: the number of write guards held on the table
    pkg_dependencies, \* package: the dependencies of the package
    pkg_pc,       \* package: the position in add_dependency
    pkg_call,     \* package: the arguments of the call of add_dependency
    pkg_returned, \* package: the values add_dependency returned, latest last
    sa,           \* program emission: the tables of the semantic analysis emit_program reads
    program,      \* program emission: the program emit_program returned
    VM_GLOBAL,    \* VM pointer: the process-wide pointer to the VM, or null
    vm_calls,     \* VM pointer: the calls of set_vm, get_vm and clear_vm, in order
    vec_elements, \* growable vector: the elements of the GrowableVec
    vec_lock,     \* growable vector: the thread holding the mutex of the vector, or 0
    vec_pc,       \* growable vector: the position of each thread in push, add_fct or len
    vec_locals,   \* growable vector: val and idx of each thread
    vec_returned, \* growable vector: the calls that have returned, in order of return
    vec_begun     \* growable vector: the number of calls begun

shapeVars == <<shape_in, shape_out, shape_edef, shape_class_instances, shape_returned>>

divVars == <<div_in, regs, zf, div_pc, div_status>>

cacheVars ==
    <<specializations, instances, write_lock, thread, calls_made, returned, pushed,
      cache_status>>

stwVars ==
    <<stw_version, threads_len, thread_state, safepoint_requested, barrier, threads_lock,
      stw_pc, stw_locals, vm_state, stops_begun, found_running, at_return, stw_status>>

callVars ==
    <<call_masm, call_mem, caller, thunk_entries, direct_entries, early_loads, resolved,
      calls_begun, call_status>>

indexVars == <<index_in, index_regs, index_flags, index_pc, index_status>>

masmVars == <<masm_data, masm_labels, masm_jumps, masm_refs, masm_emits, masm_status>>

startVars ==
    <<start_in, start_pc, diag, main_fct_id, fct_iter, tests, passed, executed,
      stdout, exit_code>>

oldVars == <<old_free, old_pc, old_locals, crossing_map, old_allocs, old_begun>>

pkgVars == <<pkg_table, pkg_table_lock, pkg_dependencies, pkg_pc, pkg_call, pkg_returned>>

emitVars == <<sa, program>>

vmVars == <<VM_GLOBAL, vm_calls>>

vecVars == <<vec_elements, vec_lock, vec_pc, vec_locals, vec_returned, vec_begun>>

vars ==
    <<shapeVars, divVars, cacheVars, stwVars, callVars, indexVars, masmVars,
      startVars, oldVars, pkgVars, emitVars, vmVars, vecVars>>

notShapeVars ==
    <<divVars, cacheVars, stwVars, callVars, indexVars, masmVars, startVars, oldVars,
      pkgVars, emitVars, vmVars, vecVars>>

notDivVars ==
    <<shapeVars, cacheVars, stwVars, callVars, indexVars, masmVars, startVars,
      oldVars, pkgVars, emitVars, vmVars, vecVars>>

notCacheVars ==
    <<shapeVars, divVars, stwVars, callVars, indexVars, masmVars, startVars, oldVars,
      pkgVars, emitVars, vmVars, vecVars>>

notStwVars ==
    <<shapeVars, divVars, cacheVars, callVars, indexVars, masmVars, startVars,
      oldVars, pkgVars, emitVars, vmVars, vecVars>>

notCallVars ==
    <<shapeVars, divVars, cacheVars, stwVars, indexVars, masmVars, startVars,
      oldVars, pkgVars, emitVars, vmVars, vecVars>>

notIndexVars ==
    <<shapeVars, divVars, cacheVars, stwVars, callVars, masmVars, startVars, oldVars,
      pkgVars, emitVars, vmVars, vecVars>>

notMasmVars ==
    <<shapeVars, divVars, cacheVars, stwVars, callVars, indexVars, startVars,
      oldVars, pkgVars, emitVars, vmVars, vecVars>>

notStartVars ==
    <<shapeVars, divVars, cacheVars, stwVars, callVars, indexVars, masmVars, oldVars,
      pkgVars, emitVars, vecVars>>

notOldVars ==
    <<shapeVars, divVars, cacheVars, stwVars, callVars, indexVars, masmVars,
      startVars, pkgVars, emitVars, vmVars, vecVars>>

notPkgVars ==
    <<shapeVars, divVars, cacheVars, stwVars, callVars, indexVars, masmVars,
      startVars, oldVars, emitVars, vmVars, vecVars>>

notEmitVars ==
    <<shapeVars, divVars, cacheVars, stwVars, callVars, indexVars, masmVars,
      startVars, oldVars, pkgVars, vmVars, vecVars>>

notVecVars ==
    <<shapeVars, divVars, cacheVars, stwVars, callVars, indexVars, masmVars,
      startVars, oldVars, pkgVars, emitVars, vmVars>>


\* The value of a subsystem's variables while another subsystem is checked.
ShapeIdle ==
    /\ shape_in = [kind |-> "none"]
    /\ shape_out = [kind |-> "none"]
    /\ shape_edef = [kind |-> "none"]
    /\ shape_class_instances = <<>>
    /\ shape_returned = <<>>

DivIdle ==
    /\ div_in = [op |-> "none"]
    /\ regs = <<>>
    /\ zf = FALSE
    /\ div_pc = 0
    /\ div_status = "idle"

CacheIdle ==
    /\ specializations = <<>>
    /\ instances = <<>>
    /\ write_lock = <<>>
    /\ thread = <<>>
    /\ calls_made = 0
    /\ returned = {}
    /\ pushed = <<>>
    /\ cache_status = "idle"

StwIdle ==
    /\ stw_version = "none"
    /\ threads_len = 0
    /\ thread_state = <<>>
    /\ safepoint_requested = <<>>
    /\ barrier = <<>>
    /\ threads_lock = 0
    /\ stw_pc = <<>>
    /\ stw_locals = <<>>
    /\ vm_state = "idle"
    /\ stops_begun = 0
    /\ found_running = {}
    /\ at_return = <<>>
    /\ stw_status = "idle"

CallIdle ==
    /\ call_masm = <<>>
    /\ call_mem = <<>>
    /\ caller = <<>>
    /\ thunk_entries = <<>>
    /\ direct_entries = <<>>
    /\ early_loads = <<>>
    /\ resolved = {}
    /\ calls_begun = 0
    /\ call_status = "idle"

IndexIdle ==
    /\ index_in = [version |-> "none"]
    /\ index_regs = <<>>
    /\ index_flags = <<>>
    /\ index_pc = 0
    /\ index_status = "idle"

MasmIdle ==
    /\ masm_data = <<>>
    /\ masm_labels = <<>>
    /\ masm_jumps = <<>>
    /\ masm_refs = {}
    /\ masm_emits = 0
    /\ masm_status = "idle"

StartIdle ==
    /\ start_in = [args |-> "none"]
    /\ start_pc = "idle"
    /\ diag = <<>>
    /\ main_fct_id = {}
    /\ fct_iter = 0
    /\ tests = 0
    /\ passed = 0
    /\ executed = <<>>
    /\ stdout = <<>>
    /\ exit_code = {}

OldIdle ==
    /\ old_free = 0
    /\ old_pc = <<>>
    /\ old_locals = <<>>
    /\ crossing_map = <<>>
    /\ old_allocs = <<>>
    /\ old_begun = 0

PkgIdle ==
    /\ pkg_table = <<>>
    /\ pkg_table_lock = 0
    /\ pkg_dependencies = <<>>
    /\ pkg_pc = "none"
    /\ pkg_call = <<>>
    /\ pkg_returned = <<>>

EmitIdle ==
    /\ sa = [tables |-> "none"]
    /\ program = [emitted |-> FALSE]

VmIdle ==
    /\ VM_GLOBAL = 0
    /\ vm_calls = <<>>

VecIdle ==
    /\ vec_elements = <<>>
    /\ vec_lock = 0
    /\ vec_pc = <<>>
    /\ vec_locals = <<>>
    /\ vec_returned = <<>>
    /\ vec_begun = 0

max(a, b) == IF a >= b THEN a ELSE b

Range(s) == {s[i] : i \in DOMAIN s}

\* ptr::null()
null == 0

\* Option<id>: None is the empty set, Some(id) the singleton.
NoId == {}

Some(id) == {id}

unwrap(opt) == CHOOSE id \in opt : TRUE

(***************************************************************************)
(* BytecodeType (bytecode/ty.rs).  A type is a record: its kind, the id of *)
(* the definition it names (TypeParam: the index), and its type list       *)
(* (Tuple: the subtypes; Lambda: the parameters followed by the return     *)
(* type).  Tuples are kept structurally: SourceType::Tuple(TupleId) names  *)
(* an interned subtype list, get_tuple_subtypes returns that list.         *)
(***************************************************************************)
Ty(k, id, args) == [k |-> k, id |-> id, args |-> args]

Unit == Ty("Unit", 0, <<>>)
Bool == Ty("Bool", 0, <<>>)
UInt8 == Ty("UInt8", 0, <<>>)
Char == Ty("Char", 0, <<>>)
Int32 == Ty("Int32", 0, <<>>)
Int64 == Ty("Int64", 0, <<>>)
Float32 == Ty("Float32", 0, <<>>)
Float64 == Ty("Float64", 0, <<>>)
Ptr == Ty("Ptr", 0, <<>>)
Tuple(subtypes) == Ty("Tuple", 0, subtypes)
TypeParam(tpid) == Ty("TypeParam", tpid, <<>>)
Enum(enum_id, type_params) == Ty("Enum", enum_id, type_params)
Struct(struct_id, type_params) == Ty("Struct", struct_id, type_params)
Class(cls_id, type_params) == Ty("Class", cls_id, type_params)
Trait(trait_id, type_params) == Ty("Trait", trait_id, type_params)
Lambda(params, return_type) == Ty("Lambda", 0, Append(params, return_type))

\* BytecodeType::is_reference_type: a value of the type is one heap pointer.
is_reference_type(ty) == ty.k \in {"Ptr", "Class", "Trait", "Lambda"}

\* SourceType::reference_type, the test vm/tuples.rs applies to a tuple element.
reference_type(ty) == ty.k \in {"Ptr", "Class", "Trait"}

\* mem::ptr_width() and Header::size() on x86-64.
ptr_width == 8

Header_size == 16

\* mem::align_i32: value rounded up to the next multiple of align.
align_i32(value, align) ==
    IF align = 0 THEN value ELSE ((value + align - 1) \div align) * align

(***************************************************************************)
(* specialize_bty / specialize_bty_array: substitution of the type         *)
(* arguments for the type parameters of a type.                            *)
(***************************************************************************)
RECURSIVE specialize_bty(_, _)
specialize_bty_array(types, type_params) ==
    [i \in 1..Len(types) |-> specialize_bty(types[i], type_params)]

specialize_bty(ty, type_params) ==
    CASE ty.k = "TypeParam" -> type_params[ty.id + 1]
      [] ty.k \in {"Class", "Trait", "Struct", "Enum", "Lambda", "Tuple"} ->
            Ty(ty.k, ty.id, specialize_bty_array(ty.args, type_params))
      [] OTHER -> ty

(***************************************************************************)
(* The program the shape layer specializes: the enum, struct and trait     *)
(* tables of the VM (vm.enums, vm.structs, vm.traits), indexed by id.      *)
(* An enum definition is the list of its variants, each the list of its    *)
(* field types; a struct definition the list of its field types.           *)
(*   enum 1:  Color { R, G, B }                                            *)
(*   enum 2:  Option[T] { None, Some(T) }                                  *)
(*   enum 3:  Either[T] { Left(T), Right(Int32) }                          *)
(*   struct 1: Pair[T] { a: Int32, b: T }                                  *)
(*   struct 2: Plain { a: UInt8, b: Int64 }                                *)
(*   trait 1: a trait with two methods                                     *)
(***************************************************************************)
EnumDefs ==
    << [id |-> 1, variants |-> << <<>>, <<>>, <<>> >>],
       [id |-> 2, variants |-> << <<>>, <<TypeParam(0)>> >>],
       [id |-> 3, variants |-> << <<TypeParam(0)>>, <<Int32>> >>] >>

StructDefs ==
    << [id |-> 1, fields |-> <<Int32, TypeParam(0)>>],
       [id |-> 2, fields |-> <<UInt8, Int64>>] >>

TraitDefs == << [id |-> 1, methods |-> <<"area", "name">>] >>

(***************************************************************************)
(* Enum layout selection (vm/specialize.rs).                               *)
(***************************************************************************)
enum_is_simple_integer(enum_) ==
    \A i \in DOMAIN enum_.variants : Len(enum_.variants[i]) = 0

\* enum_is_ptr without the test that the single field is a reference.
enum_is_ptr_any_field(enum_, type_params) ==
    /\ Len(enum_.variants) = 2
    /\ \E i, j \in 1..2 :
          /\ i # j
          /\ Len(enum_.variants[i]) = 0
          /\ Len(enum_.variants[j]) = 1

enum_is_ptr(enum_, type_params) ==
    IF Len(enum_.variants) # 2
    THEN FALSE
    ELSE LET variant1 == enum_.variants[1]
             variant2 == enum_.variants[Len(enum_.variants)]
             none_variant == IF Len(variant1) = 0 THEN variant1 ELSE variant2
             some_variant == IF Len(variant1) = 0 THEN variant2 ELSE variant1
         IN  /\ Len(none_variant) = 0
             /\ Len(some_variant) = 1
             /\ is_reference_type(specialize_bty(some_variant[1], type_params))

\* The EnumInstance create_specialized_enum pushes; a Tagged enum starts with
\* no class instance for any of its variants.
create_specialized_enum(enum_, type_params) ==
    LET layout == IF enum_is_simple_integer(enum_) THEN "Int"
                  ELSE IF enum_is_ptr(enum_, type_params) THEN "Ptr"
                  ELSE "Tagged"
    IN  [kind |-> "enum",
         enum_id |-> enum_.id,
         type_params |-> type_params,
         layout |-> layout,
         variants |-> IF layout = "Tagged"
                      THEN [i \in 1..Len(enum_.variants) |-> NoId]
                      ELSE <<>>]

\* create_enum_instance / specialize_enum: the instance of an enum of the program.
create_enum_instance(enum_id, type_params) ==
    create_specialized_enum(EnumDefs[enum_id], type_params)

(***************************************************************************)
(* Sizes, alignments, tuples and structs.  size and align recurse through  *)
(* the shape layer for tuples, structs and enums.                          *)
(***************************************************************************)
RECURSIVE size(_), align(_), tuple_loop(_, _), struct_loop(_, _, _), add_ref_fields(_, _, _)

\* ConcreteTuple without the final rounding of size up to align.
ConcreteTuple_unrounded(st) ==
    [kind |-> "tuple",
     offsets |-> st.offsets,
     references |-> st.references,
     size |-> st.size,
     align |-> st.align]

\* The ConcreteTuple determine_tuple_size builds from its locals st once the
\* loop is over.
ConcreteTuple(st) ==
    [kind |-> "tuple",
     offsets |-> st.offsets,
     references |-> st.references,
     size |-> align_i32(st.size, st.align),
     align |-> st.align]

determine_tuple_size(subtypes) == ConcreteTuple(tuple_loop(subtypes, Len(subtypes)))

get_concrete_tuple(subtypes) == determine_tuple_size(subtypes)

\* The StructInstance create_specialized_struct pushes, built from its locals
\* st once the field loop is over.
StructInstance(st) ==
    [kind |-> "struct",
     size |-> align_i32(st.struct_size, st.struct_align),
     align |-> st.struct_align,
     fields |-> st.fields,
     ref_fields |-> st.ref_fields]

create_specialized_struct(struct_, type_params) ==
    StructInstance(struct_loop(struct_, type_params, Len(struct_.fields)))

create_struct_instance(struct_id, type_params) ==
    create_specialized_struct(StructDefs[struct_id], type_params)

\* cannon::codegen::size / SourceType::size
size(ty) ==
    CASE ty.k = "Unit" -> 0
      [] ty.k \in {"Bool", "UInt8"} -> 1
      [] ty.k \in {"Char", "Int32", "Float32"} -> 4
      [] ty.k \in {"Int64", "Float64"} -> 8
      [] ty.k = "Enum" ->
            IF create_enum_instance(ty.id, ty.args).layout = "Int" THEN 4 ELSE ptr_width
      [] ty.k \in {"Ptr", "Class", "Trait", "Lambda"} -> ptr_width
      [] ty.k = "Struct" -> create_struct_instance(ty.id, ty.args).size
      [] ty.k = "Tuple" -> get_concrete_tuple(ty.args).size

\* cannon::codegen::align / SourceType::align
align(ty) ==
    CASE ty.k = "Unit" -> 0
      [] ty.k \in {"Bool", "UInt8"} -> 1
      [] ty.k \in {"Char", "Int32", "Float32"} -> 4
      [] ty.k \in {"Int64", "Float64"} -> 8
      [] ty.k = "Enum" ->
            IF create_enum_instance(ty.id, ty.args).layout = "Int" THEN 4 ELSE ptr_width
      [] ty.k \in {"Ptr", "Class", "Trait", "Lambda"} -> ptr_width
      [] ty.k = "Struct" -> create_struct_instance(ty.id, ty.args).align
      [] ty.k = "Tuple" -> get_concrete_tuple(ty.args).align

\* determine_tuple_size, a nested tuple element (the branch that ends in
\* `continue`): st holds the locals size, offsets, references and align,
\* concrete is the element's ConcreteTuple.
tuple_nested(st, concrete) ==
    LET element_offset == align_i32(st.size, concrete.align)
    IN  [size |-> element_offset + concrete.size,
         offsets |-> st.offsets \o <<element_offset>> \o
                     [i \in 1..Len(concrete.references) |->
                         element_offset + concrete.references[i]],
         references |-> st.references,
         align |-> max(st.align, concrete.align)]

\* tuple_element whose running size restarts at every element: the size of
\* the elements before it is forgotten.
tuple_element_size_reset(st, element_size, element_align, element_ty) ==
    LET element_offset == align_i32(st.size, element_align)
    IN  [size |-> element_size,
         offsets |-> Append(st.offsets, element_offset),
         references |-> IF reference_type(element_ty)
                        THEN Append(st.references, element_offset)
                        ELSE st.references,
         align |-> max(st.align, element_align)]

\* determine_tuple_size, the tail of the loop body for any other element.
tuple_element(st, element_size, element_align, element_ty) ==
    LET element_offset == align_i32(st.size, element_align)
    IN  [size |-> element_offset + element_size,
         offsets |-> Append(st.offsets, element_offset),
         references |-> IF reference_type(element_ty)
                        THEN Append(st.references, element_offset)
                        ELSE st.references,
         align |-> max(st.align, element_align)]

\* One iteration of determine_tuple_size's loop for the element ty.
tuple_iter(st, ty) ==
    CASE ty.k = "Tuple" -> tuple_nested(st, get_concrete_tuple(ty.args))
      [] ty.k = "Enum" ->
            IF create_enum_instance(ty.id, ty.args).layout = "Int"
            THEN tuple_element(st, 4, 4, Int32)
            ELSE tuple_element(st, ptr_width, ptr_width, Ptr)
      [] OTHER -> tuple_element(st, size(ty), align(ty), ty)

\* The locals of determine_tuple_size after the first n elements.
tuple_loop(subtypes, n) ==
    IF n = 0
    THEN [size |-> 0, offsets |-> <<>>, references |-> <<>>, align |-> 0]
    ELSE tuple_iter(tuple_loop(subtypes, n - 1), subtypes[n])

\* ref_fields extended by the offsets refs, each translated by offset.
push_translated(ref_fields, offset, refs) ==
    ref_fields \o [i \in 1..Len(refs) |-> offset + refs[i]]

\* add_ref_fields: ref_fields extended by the reference offsets of a value of
\* type ty stored at offset.
add_ref_fields(ref_fields, offset, ty) ==
    CASE ty.k = "Tuple" ->
            push_translated(ref_fields, offset, get_concrete_tuple(ty.args).references)
      [] ty.k = "Enum" ->
            IF create_enum_instance(ty.id, ty.args).layout = "Int"
            THEN ref_fields
            ELSE Append(ref_fields, offset)
      [] ty.k = "Struct" ->
            push_translated(ref_fields, offset, create_struct_instance(ty.id, ty.args).ref_fields)
      [] ty.k \in {"Bool", "Char", "UInt8", "Int32", "Int64", "Float32", "Float64", "Unit"} ->
            ref_fields
      [] ty.k \in {"Ptr", "Class", "Lambda", "Trait"} -> Append(ref_fields, offset)

\* One iteration of create_specialized_struct's loop for a field of the
\* specialized type ty, whose size and alignment are field_size, field_align.
struct_iter(st, ty, field_size, field_align) ==
    LET offset == align_i32(st.struct_size, field_align)
    IN  [struct_size |-> offset + field_size,
         struct_align |-> max(st.struct_align, field_align),
         fields |-> Append(st.fields, [offset |-> offset, ty |-> ty]),
         ref_fields |-> add_ref_fields(st.ref_fields, offset, ty)]

struct_loop(struct_, type_params, n) ==
    IF n = 0
    THEN [struct_size |-> 0, struct_align |-> 0, fields |-> <<>>, ref_fields |-> <<>>]
    ELSE struct_iter(struct_loop(struct_, type_params, n - 1),
                     specialize_bty(struct_.fields[n], type_params),
                     size(specialize_bty(struct_.fields[n], type_params)),
                     align(specialize_bty(struct_.fields[n], type_params)))

(***************************************************************************)
(* Class instances.  create_class_instance_with_vtable (vm/classes.rs)     *)
(* records the shape and derives the instance's ref_fields from its        *)
(* fields with add_ref_fields.                                             *)
(***************************************************************************)
RECURSIVE fields_ref_fields(_, _), field_loop(_, _, _, _)

fields_ref_fields(fields, n) ==
    IF n = 0
    THEN <<>>
    ELSE add_ref_fields(fields_ref_fields(fields, n - 1), fields[n].offset, fields[n].ty)

create_class_instance_with_vtable(shape, instance_size, fields, vtable_entries) ==
    [kind |-> "class",
     shape |-> shape,
     size |-> instance_size,
     fields |-> fields,
     ref_fields |-> fields_ref_fields(fields, Len(fields)),
     vtable_entries |-> vtable_entries]

\* One iteration of the field loop of create_specialized_class_regular and of
\* ensure_class_instance_for_enum_variant: st holds the locals csize and fields.
field_iter(st, ty, field_size, field_align) ==
    LET offset == align_i32(st.csize, field_align)
    IN  [csize |-> offset + field_size,
         fields |-> Append(st.fields, [offset |-> offset, ty |-> ty])]

field_loop(st0, types, type_params, n) ==
    IF n = 0
    THEN st0
    ELSE field_iter(field_loop(st0, types, type_params, n - 1),
                    specialize_bty(types[n], type_params),
                    size(specialize_bty(types[n], type_params)),
                    align(specialize_bty(types[n], type_params)))

\* The tail shared by the class builders: the instance size is the field
\* loop's csize rounded up to the pointer width.
class_of_fields(shape, st, vtable_entries) ==
    create_class_instance_with_vtable(
        shape, align_i32(st.csize, ptr_width), st.fields, vtable_entries)

create_specialized_class_regular(cls, type_params) ==
    class_of_fields(
        [k |-> "Class", id |-> cls.id, type_params |-> type_params],
        field_loop([csize |-> Header_size, fields |-> <<>>],
                   cls.fields, type_params, Len(cls.fields)),
        0)

\* The class instance of a variant: the tag at Header::size(), then the
\* variant's fields.
enum_variant_class(edef, enum_, variant_idx) ==
    class_of_fields(
        [k |-> "Enum", id |-> edef.enum_id, type_params |-> edef.type_params],
        field_loop([csize |-> Header_size + 4,
                    fields |-> <<[offset |-> Header_size, ty |-> Int32]>>],
                   enum_.variants[variant_idx], edef.type_params,
                   Len(enum_.variants[variant_idx])),
        0)

\* ensure_class_instance_for_enum_variant: under edef.variants.write() the id
\* stored for the variant is returned; when there is none the class instance
\* is built and pushed to class_instances and its id stored in edef.variants.
\* The result is the id returned, class_instances and edef after the call.
ensure_class_instance_for_enum_variant(class_instances, edef, enum_, variant_idx) ==
    LET variant == edef.variants[variant_idx]
    IN  IF variant # NoId
        THEN [id |-> unwrap(variant), class_instances |-> class_instances, edef |-> edef]
        ELSE LET class_instance_id == Len(class_instances)
             IN  [id |-> class_instance_id,
                  class_instances |->
                      Append(class_instances, enum_variant_class(edef, enum_, variant_idx)),
                  edef |-> [edef EXCEPT !.variants[variant_idx] = Some(class_instance_id)]]

create_specialized_class_for_trait_object(trait_, combined_type_params, object_type) ==
    class_of_fields(
        [k |-> "TraitObject", id |-> trait_.id, type_params |-> combined_type_params],
        field_iter([csize |-> Header_size, fields |-> <<>>],
                   object_type, size(object_type), align(object_type)),
        Len(trait_.methods))

(***************************************************************************)
(* The shape layer as a state machine: a request is drawn from the         *)
(* bounded sets below and the matching entry point computes its instance.  *)
(***************************************************************************)
MaxTupleLen == 3

MaxVariants == 3

MaxFields == 2

MaxVariantCalls == 2

SeqUpTo(S, n) == UNION {[1..m -> S] : m \in 0..n}

ClassFoo == Class(1, <<>>)

\* Element types of the tuples drawn: every size and alignment class, the
\* three enum layouts, a struct holding a reference, and nested tuples.
ElemTys ==
    {Unit, UInt8, Int32, Int64, Ptr, ClassFoo,
     Enum(1, <<>>), Enum(2, <<ClassFoo>>), Enum(2, <<Int32>>),
     Struct(1, <<ClassFoo>>),
     Tuple(<<UInt8>>), Tuple(<<Int32, ClassFoo>>),
     Tuple(<<Tuple(<<UInt8, ClassFoo>>), Int32>>)}

FieldTys == ElemTys \cup {TypeParam(0)}

TypeArgLists == {<<Int32>>, <<ClassFoo>>}

\* The field lists of the variants of the enum definitions drawn.
VariantShapes ==
    {<<>>, <<TypeParam(0)>>, <<Int32>>, <<ClassFoo>>, <<Int32, ClassFoo>>}

NoShape == [kind |-> "none"]

Request(kind, def, tps, idx) == [kind |-> kind, def |-> def, tps |-> tps, idx |-> idx]

TupleRequests == {Request("tuple", <<>>, st, 0) : st \in SeqUpTo(ElemTys, MaxTupleLen)}

EnumRequests ==
    {Request("enum", [id |-> 4, variants |-> vs], tps, 0) :
        vs \in SeqUpTo(VariantShapes, MaxVariants), tps \in TypeArgLists}

StructRequests ==
    {Request("struct", [id |-> 3, fields |-> fs], tps, 0) :
        fs \in SeqUpTo(FieldTys, MaxFields), tps \in TypeArgLists}

ClassRequests ==
    {Request("class", [id |-> 1, fields |-> fs], tps, 0) :
        fs \in SeqUpTo(FieldTys, MaxFields), tps \in TypeArgLists}

\* Only the variants of a Tagged enum get a class instance; the variant
\* index is an argument of each call.
VariantRequests ==
    {r \in {Request("variant", [id |-> 4, variants |-> vs], tps, 0) :
                vs \in SeqUpTo(VariantShapes, MaxVariants) \ {<<>>},
                tps \in TypeArgLists} :
        create_specialized_enum(r.def, r.tps).layout = "Tagged"}

\* A call for a variant index and the ClassInstanceId it returned.
VariantCall(variant_idx, id) == [variant_idx |-> variant_idx, id |-> id]

TraitObjectRequests ==
    {Request("trait_object", TraitDefs[1], <<ty>>, 0) : ty \in ElemTys \ {Unit}}

ShapeInit ==
    /\ \/ shape_in \in TupleRequests
       \/ shape_in \in EnumRequests
       \/ shape_in \in StructRequests
       \/ shape_in \in ClassRequests
       \/ shape_in \in VariantRequests
       \/ shape_in \in TraitObjectRequests
    /\ shape_out = NoShape
    /\ shape_edef = IF shape_in.kind = "variant"
                    THEN create_specialized_enum(shape_in.def, shape_in.tps)
                    ELSE NoShape
    /\ shape_class_instances = <<>>
    /\ shape_returned = <<>>
    /\ DivIdle
    /\ CacheIdle
    /\ StwIdle
    /\ CallIdle
    /\ IndexIdle
    /\ MasmIdle
    /\ StartIdle
    /\ OldIdle
    /\ PkgIdle
    /\ EmitIdle
    /\ VmIdle
    /\ VecIdle

GetConcreteTuple ==
    /\ shape_in.kind = "tuple" /\ shape_out = NoShape
    /\ shape_out' = get_concrete_tuple(shape_in.tps)
    /\ UNCHANGED <<shape_in, shape_edef, shape_class_instances, shape_returned, notShapeVars>>

CreateEnumInstance ==
    /\ shape_in.kind = "enum" /\ shape_out = NoShape
    /\ shape_out' = create_specialized_enum(shape_in.def, shape_in.tps)
    /\ UNCHANGED <<shape_in, shape_edef, shape_class_instances, shape_returned, notShapeVars>>

CreateStructInstance ==
    /\ shape_in.kind = "struct" /\ shape_out = NoShape
    /\ shape_out' = create_specialized_struct(shape_in.def, shape_in.tps)
    /\ UNCHANGED <<shape_in, shape_edef, shape_class_instances, shape_returned, notShapeVars>>

\* create_class_instance_with_vtable registers the instance in
\* vm.class_instances; its id is its index.
CreateClassInstance ==
    /\ shape_in.kind = "class" /\ shape_out = NoShape
    /\ shape_out' = create_specialized_class_regular(shape_in.def, shape_in.tps)
    /\ shape_class_instances' =
          Append(shape_class_instances,
                 create_specialized_class_regular(shape_in.def, shape_in.tps))
    /\ UNCHANGED <<shape_in, shape_edef, shape_returned, notShapeVars>>

\* A call of ensure_class_instance_for_enum_variant for a variant of the
\* enum instance; shape_out is the class instance the returned id names.
EnsureClassInstanceForEnumVariant(variant_idx) ==
    /\ shape_in.kind = "variant"
    /\ Len(shape_returned) < MaxVariantCalls
    /\ variant_idx \in DOMAIN shape_in.def.variants
    /\ LET r == ensure_class_instance_for_enum_variant(
                    shape_class_instances, shape_edef, shape_in.def, variant_idx)
       IN  /\ shape_class_instances' = r.class_instances
           /\ shape_edef' = r.edef
           /\ shape_returned' = Append(shape_returned, VariantCall(variant_idx, r.id))
           /\ shape_out' = r.class_instances[r.id + 1]
    /\ UNCHANGED <<shape_in, notShapeVars>>

EnsureClassInstanceForTraitObject ==
    /\ shape_in.kind = "trait_object" /\ shape_out = NoShape
    /\ shape_out' = create_specialized_class_for_trait_object(
                        shape_in.def, <<shape_in.tps[1]>>, shape_in.tps[1])
    /\ shape_class_instances' =
          Append(shape_class_instances,
                 create_specialized_class_for_trait_object(
                     shape_in.def, <<shape_in.tps[1]>>, shape_in.tps[1]))
    /\ UNCHANGED <<shape_in, shape_edef, shape_returned, notShapeVars>>

ShapeNext ==
    \/ GetConcreteTuple
    \/ CreateEnumInstance
    \/ CreateStructInstance
    \/ CreateClassInstance
    \/ \E variant_idx \in 1..MaxVariants : EnsureClassInstanceForEnumVariant(variant_idx)
    \/ EnsureClassInstanceForTraitObject

SpecShape == ShapeInit /\ [][ShapeNext]_vars

(***************************************************************************)
(* Machine words: sequences of 16-bit limbs, least significant first.  A   *)
(* 32-bit value has two limbs, a 64-bit register four.                     *)
(***************************************************************************)
Radix == 2^16

HalfRadix == 2^15

\* The sequence of the first n values of the function f.
Limbs(f, n) == SubSeq(f, 1, n)

Zeros(n) == Limbs([i \in 1..n |-> 0], n)

Ones(n) == Limbs([i \in 1..n |-> Radix - 1], n)

\* The two's complement of the integer n in k limbs.
Word(n, k) ==
    Limbs([i \in 1..k |-> IF i = 1 THEN n % Radix
                          ELSE IF i = 2 THEN (n \div Radix) % Radix
                          ELSE IF n < 0 THEN Radix - 1 ELSE 0], k)

MinValue(k) == Limbs([i \in 1..k |-> IF i = k THEN HalfRadix ELSE 0], k)

MaxValue(k) ==
    Limbs([i \in 1..k |-> IF i = k THEN HalfRadix - 1 ELSE Radix - 1], k)

IsNegative(a) == a[Len(a)] >= HalfRadix

Low(a, k) == SubSeq(a, 1, k)

ZeroExtend(a, k) == a \o Zeros(k - Len(a))

SignExtend(a, k) == a \o (IF IsNegative(a) THEN Ones(k - Len(a)) ELSE Zeros(k - Len(a)))

Not(a) == Limbs([i \in 1..Len(a) |-> Radix - 1 - a[i]], Len(a))

\* The bitwise and of two n-bit numbers.
RECURSIVE and_bits(_, _, _)
and_bits(x, y, n) ==
    IF n = 0
    THEN 0
    ELSE (x % 2) * (y % 2) + 2 * and_bits(x \div 2, y \div 2, n - 1)

And(a, b) == Limbs([i \in 1..Len(a) |-> and_bits(a[i], b[i], 16)], Len(a))

\* The limbs of a + b + carry from limb i on, followed by the carry out.
RECURSIVE add_loop(_, _, _, _)
add_loop(a, b, i, carry) ==
    IF i > Len(a)
    THEN <<carry>>
    ELSE <<(a[i] + b[i] + carry) % Radix>>
         \o add_loop(a, b, i + 1, (a[i] + b[i] + carry) \div Radix)

Neg(a) == Low(add_loop(Not(a), Zeros(Len(a)), 1, 1), Len(a))

Sub(a, b) == Low(add_loop(a, Not(b), 1, 1), Len(a))

\* a >= b for unsigned words of the same length: a - b does not borrow.
UGe(a, b) == add_loop(a, Not(b), 1, 1)[Len(a) + 1] = 1

\* The magnitude of a signed word, as an unsigned word of the same length.
Abs(a) == IF IsNegative(a) THEN Neg(a) ELSE a

\* Bit i of a, bit 0 the least significant.
Bit(a, i) == (a[(i \div 16) + 1] \div (2^(i % 16))) % 2

\* 2 * a + bit, truncated to the length of a.
ShiftIn(a, bit) ==
    Limbs([i \in 1..Len(a) |->
              (2 * a[i] + (IF i = 1 THEN bit ELSE a[i - 1] \div HalfRadix)) % Radix],
          Len(a))

\* Restoring division of unsigned words: one quotient bit per step.
udiv_step(d, shifted, quo) ==
    IF UGe(shifted, d)
    THEN [rem |-> Sub(shifted, d), quo |-> ShiftIn(quo, 1)]
    ELSE [rem |-> shifted, quo |-> ShiftIn(quo, 0)]

\* The state after the steps for bits i down to stop of n; the state after
\* each step is computed before the next step is entered.
RECURSIVE udiv_bits(_, _, _, _, _)
udiv_bits(n, d, i, stop, st) ==
    IF i < stop
    THEN st
    ELSE CHOOSE r \in {udiv_bits(n, d, i - 1, stop, next) :
                          next \in {udiv_step(d, ShiftIn(st.rem, Bit(n, i)), st.quo)}} : TRUE

\* The state after the steps for limbs j down to 1 of n, one limb at a time:
\* the state after limb j is computed before the lower limbs are entered.
RECURSIVE udiv_limbs(_, _, _, _)
udiv_limbs(n, d, j, st) ==
    IF j = 0
    THEN st
    ELSE CHOOSE r \in {udiv_limbs(n, d, j - 1, next) :
                          next \in {udiv_bits(n, d, 16 * j - 1, 16 * (j - 1), st)}} : TRUE

\* Quotient (as long as n) and remainder of unsigned n by unsigned d # 0.
\* The operands are computed before the loop is entered.
UDivMod(n, d) ==
    CHOOSE r \in {udiv_limbs(nv, dv, Len(nv),
                             [rem |-> Zeros(Len(nv) + 1), quo |-> Zeros(Len(nv))]) :
                      nv \in {n}, dv \in {ZeroExtend(d, Len(n) + 1)}} : TRUE

\* The value of a 32-bit word as an integer.
ToInt(a) ==
    IF IsNegative(a)
    THEN ((a[1] + Radix * (a[2] % HalfRadix)) - 2^30) - 2^30
    ELSE a[1] + Radix * a[2]

(***************************************************************************)
(* The x64 instructions div_common emits and the sequence it emits         *)
(* (dora-runtime/src/masm/x64.rs).                                         *)
(***************************************************************************)
Regs == {"RAX", "RCX", "RDX", "R9", "R10"}

RAX == "RAX"

RDX == "RDX"

\* The register get_scratch hands out.
scratch == "R9"

is64(mode) == mode = "Int64"

\* Limbs of an operand of the instruction: 4 in 64-bit form, 2 in 32-bit form.
OperandLimbs(x64) == IF x64 THEN 4 ELSE 2

Insn(op, x64, a, b, imm, target) ==
    [op |-> op, x64 |-> x64, a |-> a, b |-> b, imm |-> imm, target |-> target]

test_rr(x64, lhs, rhs) == Insn("test_rr", x64, lhs, rhs, <<>>, "")

cmp_rr(x64, lhs, rhs) == Insn("cmp_rr", x64, lhs, rhs, <<>>, "")

cmp_ri(x64, lhs, imm) == Insn("cmp_ri", x64, lhs, "", imm, "")

mov_ri(x64, dest, imm) == Insn("mov_ri", x64, dest, "", imm, "")

mov_rr(x64, lhs, rhs) == Insn("mov_rr", x64, lhs, rhs, <<>>, "")

jcc(cond, target) == Insn("jcc", FALSE, cond, "", <<>>, target)

cqo == Insn("cqo", TRUE, "", "", <<>>, "")

cdq == Insn("cdq", FALSE, "", "", <<>>, "")

idiv_r(x64, src) == Insn("idiv", x64, src, "", <<>>, "")

bind_label(lbl) == Insn("label", FALSE, "", "", <<>>, lbl)

\* emit_bailout: the trap stub bound to lbl, placed out of line.
emit_bailout(lbl, trap) == <<bind_label(lbl), Insn("trap", FALSE, trap, "", <<>>, "")>>

\* The code that follows the division in the function being compiled.
rest == Insn("rest", FALSE, "", "", <<>>, "")

\* div_common without the comparison of the dividend with the minimum value:
\* only the zero test guards idiv.
div_common_zero_test_only(mode, dest, lhs, rhs, result) ==
    <<test_rr(is64(mode), rhs, rhs),
      jcc("Zero", "lbl_zero"),
      bind_label("lbl_div")>>
    \o (IF lhs # RAX THEN <<mov_rr(is64(mode), RAX, lhs)>> ELSE <<>>)
    \o <<IF is64(mode) THEN cqo ELSE cdq>>
    \o <<idiv_r(is64(mode), rhs)>>
    \o (IF dest # result THEN <<mov_rr(is64(mode), dest, result)>> ELSE <<>>)
    \o <<bind_label("lbl_done"), rest>>
    \o emit_bailout("lbl_zero", "DIV0")
    \o emit_bailout("lbl_overflow", "OVERFLOW")

\* The instructions div_common emits, in emission order, followed by the two
\* bailout stubs.
div_common(mode, dest, lhs, rhs, result) ==
    <<test_rr(is64(mode), rhs, rhs),
      jcc("Zero", "lbl_zero"),
      mov_ri(is64(mode), scratch, MinValue(OperandLimbs(is64(mode)))),
      cmp_rr(is64(mode), scratch, lhs),
      jcc("NotEqual", "lbl_div"),
      cmp_ri(is64(mode), rhs, Word(-1, OperandLimbs(is64(mode)))),
      jcc("Equal", "lbl_overflow"),
      bind_label("lbl_div")>>
    \o (IF lhs # RAX THEN <<mov_rr(is64(mode), RAX, lhs)>> ELSE <<>>)
    \o <<IF is64(mode) THEN cqo ELSE cdq>>
    \o <<idiv_r(is64(mode), rhs)>>
    \o (IF dest # result THEN <<mov_rr(is64(mode), dest, result)>> ELSE <<>>)
    \o <<bind_label("lbl_done"), rest>>
    \o emit_bailout("lbl_zero", "DIV0")
    \o emit_bailout("lbl_overflow", "OVERFLOW")

int_div(mode, dest, lhs, rhs) == div_common(mode, dest, lhs, rhs, RAX)

int_mod(mode, dest, lhs, rhs) == div_common(mode, dest, lhs, rhs, RDX)

\* A write to a register: the 32-bit form clears the upper half.
WriteReg(rs, r, x64, value) ==
    [rs EXCEPT ![r] = ZeroExtend(Low(value, OperandLimbs(x64)), 4)]

\* The signed division idiv performs on the double-width dividend hi:lo.
\* It faults (#DE) on a zero divisor and on a quotient that does not fit.
idiv_result(negative_n, negative_d, udiv, k) ==
    IF ~UGe(ZeroExtend(IF negative_n # negative_d THEN MinValue(k) ELSE MaxValue(k), 2 * k),
            udiv.quo)
    THEN [fault |-> TRUE, quo |-> Zeros(k), rem |-> Zeros(k)]
    ELSE [fault |-> FALSE,
          quo |-> Low(IF negative_n # negative_d THEN Neg(udiv.quo) ELSE udiv.quo, k),
          rem |-> Low(IF negative_n THEN Neg(udiv.rem) ELSE udiv.rem, k)]

idiv(hi, lo, divisor) ==
    IF divisor = Zeros(Len(divisor))
    THEN [fault |-> TRUE, quo |-> Zeros(Len(divisor)), rem |-> Zeros(Len(divisor))]
    ELSE idiv_result(IsNegative(hi), IsNegative(divisor),
                     UDivMod(Abs(lo \o hi), ZeroExtend(Abs(divisor), 2 * Len(divisor))),
                     Len(divisor))

\* Truncating signed division of words of the same length, for rhs # 0 and
\* a quotient that fits: the reference the emitted sequence is held against.
TruncDivSigned(negative_l, negative_r, udiv) ==
    [quo |-> IF negative_l # negative_r THEN Neg(udiv.quo) ELSE udiv.quo,
     rem |-> IF negative_l THEN Neg(udiv.rem) ELSE udiv.rem]

TruncDiv(l, r) ==
    TruncDivSigned(IsNegative(l), IsNegative(r),
                   [quo |-> UDivMod(Abs(l), Abs(r)).quo,
                    rem |-> Low(UDivMod(Abs(l), Abs(r)).rem, Len(l))])

\* Truncating division of 32-bit integers by integer arithmetic, for r # 0
\* and not (l = MIN and r = -1).
TruncQuotPositive(l, r) ==
    IF l >= 0 \/ l % r = 0 THEN l \div r ELSE (l \div r) + 1

TruncQuotInt(l, r) ==
    IF r > 0 THEN TruncQuotPositive(l, r)
    ELSE IF r = ToInt(MinValue(2)) THEN (IF l = r THEN 1 ELSE 0)
    ELSE 0 - TruncQuotPositive(l, 0 - r)

TruncRemInt(l, r) == l - TruncQuotInt(l, r) * r

(***************************************************************************)
(* The emitted division sequence as a state machine: one action per        *)
(* instruction kind, executed on a register file.                          *)
(***************************************************************************)
SmallInts == {-7, -1, 0, 1, 2}

DivValues(k) ==
    {Word(n, k) : n \in SmallInts}
        \cup {MinValue(k), <<1>> \o Tail(MinValue(k)), MaxValue(k)}

\* The operand registers the code generator hands to int_div and int_mod:
\* lhs and dest in the result register or a temporary, rhs in a temporary
\* that is neither RAX, RDX nor the scratch register.
DivInputs ==
    UNION {[op : {"Div", "Mod"}, mode : {mode}, dest : {"RAX", "RCX"},
            lhs : {"RAX", "RCX"}, rhs : {"R10"},
            lhs_val : DivValues(OperandLimbs(is64(mode))),
            rhs_val : DivValues(OperandLimbs(is64(mode))),
            junk : {Zeros(4), Ones(4)}] : mode \in {"Int32", "Int64"}}

\* Registers at entry: the operands in their registers (in 32-bit mode below
\* an unspecified upper half), every other register unspecified.
InitialRegs(in) ==
    [r \in Regs |->
        IF r = in.lhs THEN in.lhs_val \o Low(in.junk, 4 - Len(in.lhs_val))
        ELSE IF r = in.rhs THEN in.rhs_val \o Low(in.junk, 4 - Len(in.rhs_val))
        ELSE in.junk]

DivCode ==
    IF div_in.op = "Div"
    THEN int_div(div_in.mode, div_in.dest, div_in.lhs, div_in.rhs)
    ELSE int_mod(div_in.mode, div_in.dest, div_in.lhs, div_in.rhs)

\* The position of the first instruction at or after i: labels take no room.
RECURSIVE Fall(_, _)
Fall(code, i) == IF code[i].op = "label" THEN Fall(code, i + 1) ELSE i

LabelPos(code, lbl) ==
    CHOOSE i \in 1..Len(code) : code[i].op = "label" /\ code[i].target = lbl

At(op) == div_status = "running" /\ DivCode[div_pc].op = op

DivInit ==
    /\ div_in \in DivInputs
    /\ regs = InitialRegs(div_in)
    /\ zf = (div_in.junk = Zeros(4))
    /\ div_pc = 1
    /\ div_status = "running"
    /\ ShapeIdle
    /\ CacheIdle
    /\ StwIdle
    /\ CallIdle
    /\ IndexIdle
    /\ MasmIdle
    /\ StartIdle
    /\ OldIdle
    /\ PkgIdle
    /\ EmitIdle
    /\ VmIdle
    /\ VecIdle

TestRR ==
    /\ At("test_rr")
    /\ zf' = (And(Low(regs[DivCode[div_pc].a], OperandLimbs(DivCode[div_pc].x64)),
                  Low(regs[DivCode[div_pc].b], OperandLimbs(DivCode[div_pc].x64)))
              = Zeros(OperandLimbs(DivCode[div_pc].x64)))
    /\ div_pc' = Fall(DivCode, div_pc + 1)
    /\ UNCHANGED <<div_in, regs, div_status, notDivVars>>

CmpRR ==
    /\ At("cmp_rr")
    /\ zf' = (Low(regs[DivCode[div_pc].a], OperandLimbs(DivCode[div_pc].x64))
              = Low(regs[DivCode[div_pc].b], OperandLimbs(DivCode[div_pc].x64)))
    /\ div_pc' = Fall(DivCode, div_pc + 1)
    /\ UNCHANGED <<div_in, regs, div_status, notDivVars>>

CmpRI ==
    /\ At("cmp_ri")
    /\ zf' = (Low(regs[DivCode[div_pc].a], OperandLimbs(DivCode[div_pc].x64))
              = Low(DivCode[div_pc].imm, OperandLimbs(DivCode[div_pc].x64)))
    /\ div_pc' = Fall(DivCode, div_pc + 1)
    /\ UNCHANGED <<div_in, regs, div_status, notDivVars>>

MovRI ==
    /\ At("mov_ri")
    /\ regs' = WriteReg(regs, DivCode[div_pc].a, DivCode[div_pc].x64, DivCode[div_pc].imm)
    /\ div_pc' = Fall(DivCode, div_pc + 1)
    /\ UNCHANGED <<div_in, zf, div_status, notDivVars>>

MovRR ==
    /\ At("mov_rr")
    /\ regs' = WriteReg(regs, DivCode[div_pc].a, DivCode[div_pc].x64,
                        regs[DivCode[div_pc].b])
    /\ div_pc' = Fall(DivCode, div_pc + 1)
    /\ UNCHANGED <<div_in, zf, div_status, notDivVars>>

\* jcc: Zero and Equal are taken on ZF, NotEqual on its absence.
Jcc ==
    /\ At("jcc")
    /\ div_pc' = IF (DivCode[div_pc].a = "NotEqual") # zf
                 THEN Fall(DivCode, LabelPos(DivCode, DivCode[div_pc].target))
                 ELSE Fall(DivCode, div_pc + 1)
    /\ UNCHANGED <<div_in, regs, zf, div_status, notDivVars>>

\* cqo: RDX becomes the sign of RAX.
Cqo ==
    /\ At("cqo")
    /\ regs' = WriteReg(regs, RDX, TRUE,
                        IF IsNegative(regs[RAX]) THEN Ones(4) ELSE Zeros(4))
    /\ div_pc' = Fall(DivCode, div_pc + 1)
    /\ UNCHANGED <<div_in, zf, div_status, notDivVars>>

\* cdq: EDX becomes the sign of EAX.
Cdq ==
    /\ At("cdq")
    /\ regs' = WriteReg(regs, RDX, FALSE,
                        IF IsNegative(Low(regs[RAX], 2)) THEN Ones(2) ELSE Zeros(2))
    /\ div_pc' = Fall(DivCode, div_pc + 1)
    /\ UNCHANGED <<div_in, zf, div_status, notDivVars>>

IdivOutcome(x64, r) ==
    IF r.fault
    THEN /\ div_status' = "fault"
         /\ UNCHANGED <<regs, div_pc>>
    ELSE /\ regs' = WriteReg(WriteReg(regs, RAX, x64, r.quo), RDX, x64, r.rem)
         /\ div_pc' = Fall(DivCode, div_pc + 1)
         /\ UNCHANGED div_status

Idiv ==
    /\ At("idiv")
    /\ IdivOutcome(DivCode[div_pc].x64,
                   idiv(Low(regs[RDX], OperandLimbs(DivCode[div_pc].x64)),
                        Low(regs[RAX], OperandLimbs(DivCode[div_pc].x64)),
                        Low(regs[DivCode[div_pc].a], OperandLimbs(DivCode[div_pc].x64))))
    /\ UNCHANGED <<div_in, zf, notDivVars>>

\* A bailout stub raises its trap.
Bailout ==
    /\ At("trap")
    /\ div_status' = DivCode[div_pc].a
    /\ UNCHANGED <<div_in, regs, zf, div_pc, notDivVars>>

\* The sequence is left through lbl_done.
DivDone ==
    /\ At("rest")
    /\ div_status' = "done"
    /\ UNCHANGED <<div_in, regs, zf, div_pc, notDivVars>>

DivNext ==
    \/ TestRR \/ CmpRR \/ CmpRI \/ MovRI \/ MovRR \/ Jcc
    \/ Cqo \/ Cdq \/ Idiv \/ Bailout \/ DivDone

SpecDiv == DivInit /\ [][DivNext]_vars

(***************************************************************************)
(* The specialization caches (vm/specialize.rs, vm.rs): four maps behind   *)
(* read-write locks, three growable vectors of instances, and threads      *)
(* that call the shape layer's entry points.  A call is: look the key up   *)
(* under the read lock; on a miss compute the instance, take the write     *)
(* lock, look the key up again, push the instance, insert its id.          *)
(***************************************************************************)
NumThreads == 2

MaxCalls == 3

Threads == 1..NumThreads

ClassDefs ==
    << [id |-> 1, fields |-> <<>>],
       [id |-> 2, fields |-> <<TypeParam(0), Int32>>] >>

\* The calls the threads make.  The fields of these definitions hold no
\* struct, enum or tuple, so laying them out specializes nothing else.
Call(kind, id, tps, object_type) ==
    [kind |-> kind, id |-> id, tps |-> tps, object_type |-> object_type]

CacheCalls ==
    {Call("struct", 1, tps, Unit) : tps \in TypeArgLists}
        \cup {Call("enum", 2, tps, Unit) : tps \in TypeArgLists}
        \cup {Call("class", 2, tps, Unit) : tps \in TypeArgLists}
        \cup {Call("trait_object", 1, <<>>, ty) : ty \in {Int32, ClassFoo}}

NoCall == Call("none", 0, <<>>, Unit)

\* The cache key of a call: (definition id, type arguments); for a trait
\* object the type arguments are trait_type_params.append(object_type).
combined_type_params(call) == Append(call.tps, call.object_type)

CacheKey(call) ==
    <<call.id, IF call.kind = "trait_object" THEN combined_type_params(call) ELSE call.tps>>

CacheKeys(kind) == {CacheKey(call) : call \in {c \in CacheCalls : c.kind = kind}}

\* The map and the vector a kind of call works on.
MapOf(kind) ==
    CASE kind = "struct" -> "struct_specializations"
      [] kind = "enum" -> "enum_specializations"
      [] kind = "class" -> "class_specializations"
      [] kind = "trait_object" -> "trait_vtables"

VecOf(kind) ==
    CASE kind = "struct" -> "struct_instances"
      [] kind = "enum" -> "enum_instances"
      [] kind = "class" -> "class_instances"
      [] kind = "trait_object" -> "class_instances"

KindOfMap(map) == CHOOSE kind \in {"struct", "enum", "class", "trait_object"} : MapOf(kind) = map

Maps == {"struct_specializations", "enum_specializations", "class_specializations", "trait_vtables"}

\* The instance a call's miss path builds before it takes the write lock.
InstanceOf(call) ==
    CASE call.kind = "struct" -> create_specialized_struct(StructDefs[call.id], call.tps)
      [] call.kind = "enum" -> create_specialized_enum(EnumDefs[call.id], call.tps)
      [] call.kind = "class" -> create_specialized_class_regular(ClassDefs[call.id], call.tps)
      [] call.kind = "trait_object" ->
            create_specialized_class_for_trait_object(
                TraitDefs[call.id], combined_type_params(call), call.object_type)

\* HashMap::get under the read lock (the first lookup of specialize_*).
lookup(map, key) == map[key]

\* HashMap::get under the write lock, the second lookup: one per map.
\* A second lookup that never finds the key (no double check).
struct_get_unchecked(map, key) == NoId

trait_vtables_get_unchecked(map, key) == NoId

struct_specializations_get(map, key) == map[key]

enum_specializations_get(map, key) == map[key]

class_specializations_get(map, key) == map[key]

trait_vtables_get(map, key) == map[key]

get_under_write_lock(kind, map, key) ==
    CASE kind = "struct" -> struct_specializations_get(map, key)
      [] kind = "enum" -> enum_specializations_get(map, key)
      [] kind = "class" -> class_specializations_get(map, key)
      [] kind = "trait_object" -> trait_vtables_get(map, key)

CacheInit ==
    /\ specializations = [m \in Maps |-> [key \in CacheKeys(KindOfMap(m)) |-> NoId]]
    /\ instances = [struct_instances |-> <<>>, enum_instances |-> <<>>,
                    class_instances |-> <<>>]
    /\ write_lock = [m \in Maps |-> 0]
    /\ thread = [t \in Threads |-> [pc |-> "idle", call |-> NoCall, id |-> NoId]]
    /\ calls_made = 0
    /\ returned = {}
    /\ pushed = <<>>
    /\ cache_status = "ok"
    /\ ShapeIdle
    /\ DivIdle
    /\ StwIdle
    /\ CallIdle
    /\ IndexIdle
    /\ MasmIdle
    /\ StartIdle
    /\ OldIdle
    /\ PkgIdle
    /\ EmitIdle
    /\ VmIdle
    /\ VecIdle

Return(t, call, id) ==
    /\ thread' = [thread EXCEPT ![t] = [pc |-> "idle", call |-> NoCall, id |-> NoId]]
    /\ returned' = returned \cup {[call |-> call, id |-> id]}

\* The entry point up to the first lookup: a hit returns the cached id, a
\* miss goes on to build the instance.  The read lock is taken only while no
\* writer holds the lock.
Specialize(t, call) ==
    /\ cache_status = "ok"
    /\ thread[t].pc = "idle"
    /\ calls_made < MaxCalls
    /\ write_lock[MapOf(call.kind)] = 0
    /\ calls_made' = calls_made + 1
    /\ IF lookup(specializations[MapOf(call.kind)], CacheKey(call)) # NoId
       THEN Return(t, call, unwrap(lookup(specializations[MapOf(call.kind)], CacheKey(call))))
       ELSE /\ thread' = [thread EXCEPT ![t] = [pc |-> "create", call |-> call, id |-> NoId]]
            /\ UNCHANGED returned
    /\ UNCHANGED <<specializations, instances, write_lock, pushed, cache_status, notCacheVars>>

\* create_specialized_*: the instance is built, then the write lock taken.
WriteLock(t, kind) ==
    /\ cache_status = "ok"
    /\ thread[t].pc = "create"
    /\ thread[t].call.kind = kind
    /\ write_lock[MapOf(kind)] = 0
    /\ write_lock' = [write_lock EXCEPT ![MapOf(kind)] = t]
    /\ thread' = [thread EXCEPT ![t].pc = "locked"]
    /\ UNCHANGED <<specializations, instances, calls_made, returned, pushed, cache_status,
                   notCacheVars>>

\* The second lookup: a hit returns the id another thread inserted meanwhile
\* and drops the lock.
Recheck(t, kind) ==
    /\ cache_status = "ok"
    /\ thread[t].pc = "locked"
    /\ thread[t].call.kind = kind
    /\ IF get_under_write_lock(kind, specializations[MapOf(kind)], CacheKey(thread[t].call)) # NoId
       THEN /\ Return(t, thread[t].call,
                      unwrap(get_under_write_lock(kind, specializations[MapOf(kind)],
                                                  CacheKey(thread[t].call))))
            /\ write_lock' = [write_lock EXCEPT ![MapOf(kind)] = 0]
       ELSE /\ thread' = [thread EXCEPT ![t].pc = "push"]
            /\ UNCHANGED <<returned, write_lock>>
    /\ UNCHANGED <<specializations, instances, calls_made, pushed, cache_status, notCacheVars>>

\* The instance is pushed to its vector; its id is its index.
Push(t, kind) ==
    /\ cache_status = "ok"
    /\ thread[t].pc = "push"
    /\ thread[t].call.kind = kind
    /\ instances' = [instances EXCEPT ![VecOf(kind)] = Append(@, InstanceOf(thread[t].call))]
    /\ thread' = [thread EXCEPT ![t].pc = "insert", ![t].id = Some(Len(instances[VecOf(kind)]))]
    /\ pushed' = Append(pushed, [call |-> thread[t].call, id |-> Len(instances[VecOf(kind)])])
    /\ UNCHANGED <<specializations, write_lock, calls_made, returned, cache_status,
                   notCacheVars>>

\* The id is inserted under the key; an entry already there fails the
\* assertion.  The lock is dropped on return.
Insert(t, kind) ==
    /\ cache_status = "ok"
    /\ thread[t].pc = "insert"
    /\ thread[t].call.kind = kind
    /\ specializations' = [specializations EXCEPT
                              ![MapOf(kind)][CacheKey(thread[t].call)] = thread[t].id]
    /\ IF specializations[MapOf(kind)][CacheKey(thread[t].call)] # NoId
       THEN /\ cache_status' = "panic"
            /\ UNCHANGED <<thread, returned, write_lock>>
       ELSE /\ Return(t, thread[t].call, unwrap(thread[t].id))
            /\ write_lock' = [write_lock EXCEPT ![MapOf(kind)] = 0]
            /\ UNCHANGED cache_status
    /\ UNCHANGED <<instances, calls_made, pushed, notCacheVars>>

SpecializeStruct == \E t \in Threads : \E call \in CacheCalls : call.kind = "struct" /\ Specialize(t, call)

CreateSpecializedStructLock == \E t \in Threads : WriteLock(t, "struct")

CreateSpecializedStructRecheck == \E t \in Threads : Recheck(t, "struct")

CreateSpecializedStructPush == \E t \in Threads : Push(t, "struct")

CreateSpecializedStructInsert == \E t \in Threads : Insert(t, "struct")

SpecializeEnum == \E t \in Threads : \E call \in CacheCalls : call.kind = "enum" /\ Specialize(t, call)

CreateSpecializedEnumLock == \E t \in Threads : WriteLock(t, "enum")

CreateSpecializedEnumRecheck == \E t \in Threads : Recheck(t, "enum")

CreateSpecializedEnumPush == \E t \in Threads : Push(t, "enum")

CreateSpecializedEnumInsert == \E t \in Threads : Insert(t, "enum")

SpecializeClass == \E t \in Threads : \E call \in CacheCalls : call.kind = "class" /\ Specialize(t, call)

CreateSpecializedClassLock == \E t \in Threads : WriteLock(t, "class")

CreateSpecializedClassRecheck == \E t \in Threads : Recheck(t, "class")

CreateSpecializedClassPush == \E t \in Threads : Push(t, "class")

CreateSpecializedClassInsert == \E t \in Threads : Insert(t, "class")

EnsureClassInstanceForTraitObjectLookup ==
    \E t \in Threads : \E call \in CacheCalls : call.kind = "trait_object" /\ Specialize(t, call)

TraitObjectLock == \E t \in Threads : WriteLock(t, "trait_object")

TraitObjectRecheck == \E t \in Threads : Recheck(t, "trait_object")

TraitObjectPush == \E t \in Threads : Push(t, "trait_object")

TraitObjectInsert == \E t \in Threads : Insert(t, "trait_object")

\* ensure_class_instance_for_lambda: the class instance of a lambda object,
\* which has the context field only.
ensure_class_instance_for_lambda(fct_id, type_params) ==
    create_class_instance_with_vtable(
        [k |-> "Lambda", id |-> fct_id, type_params |-> type_params],
        Header_size + ptr_width,
        <<[offset |-> Header_size, ty |-> Ptr]>>,
        1)

\* The calls of ensure_class_instance_for_lambda the threads make.
LambdaCalls == {Call("lambda", 1, tps, Unit) : tps \in TypeArgLists}

\* ensure_class_instance_for_lambda: the instance is handed to
\* create_class_instance_with_vtable, which pushes it to class_instances and
\* returns its index; no map is consulted.
EnsureClassInstanceForLambda ==
    \E t \in Threads : \E call \in LambdaCalls :
        /\ cache_status = "ok"
        /\ thread[t].pc = "idle"
        /\ calls_made < MaxCalls
        /\ calls_made' = calls_made + 1
        /\ instances' = [instances EXCEPT !.class_instances =
                            Append(@, ensure_class_instance_for_lambda(call.id, call.tps))]
        /\ pushed' = Append(pushed, [call |-> call, id |-> Len(instances.class_instances)])
        /\ Return(t, call, Len(instances.class_instances))
        /\ UNCHANGED <<specializations, write_lock, cache_status, notCacheVars>>

CacheNext ==
    \/ EnsureClassInstanceForLambda
    \/ SpecializeStruct \/ CreateSpecializedStructLock \/ CreateSpecializedStructRecheck
    \/ CreateSpecializedStructPush \/ CreateSpecializedStructInsert
    \/ SpecializeEnum \/ CreateSpecializedEnumLock \/ CreateSpecializedEnumRecheck
    \/ CreateSpecializedEnumPush \/ CreateSpecializedEnumInsert
    \/ SpecializeClass \/ CreateSpecializedClassLock \/ CreateSpecializedClassRecheck
    \/ CreateSpecializedClassPush \/ CreateSpecializedClassInsert
    \/ EnsureClassInstanceForTraitObjectLookup \/ TraitObjectLock \/ TraitObjectRecheck
    \/ TraitObjectPush \/ TraitObjectInsert

SpecCache == CacheInit /\ [][CacheNext]_vars

(***************************************************************************)
(* Stop-the-world (dora-runtime/src/safepoint.rs, and the earlier          *)
(* dora/src/safepoint.rs).  Threads run code, poll their safepoint byte,   *)
(* park around native calls, and request stop-the-world operations.        *)
(* park, unpark, parked_scope and the barrier come from the threads module *)
(* and are modelled from their documented behaviour.                       *)
(***************************************************************************)
MaxThreads == 3

MaxStops == 2

Versions == {"runtime", "legacy"}

StwThreads == 1..threads_len

\* stop_threads, one thread: the state the compare-and-swap installs and
\* whether the thread is counted in `running`.
stop_threads_step(current_state) ==
    CASE current_state = "Running" -> [next |-> "SafepointRequested", running |-> 1]
      [] current_state = "Parked" -> [next |-> "ParkedSafepoint", running |-> 0]
      [] current_state = "Safepoint" -> [next |-> "Safepoint", running |-> 1]
      [] OTHER -> [next |-> "panic", running |-> 0]

legacy_stop_threads_step(current_state) ==
    CASE current_state = "Running" -> [next |-> "SafepointRequested", running |-> 1]
      [] current_state = "Parked" -> [next |-> "ParkedSafepoint", running |-> 0]
      [] current_state = "Safepoint" -> [next |-> "Safepoint", running |-> 0]
      [] OTHER -> [next |-> "panic", running |-> 0]

\* resume_threads, one thread, without the restore.
resume_state_unrestored(old_state) == old_state

\* resume_threads, one thread: the state it is given.
resume_state(old_state) ==
    IF old_state \in {"Safepoint", "ParkedSafepoint"} THEN "Parked" ELSE "panic"

legacy_resume_state(old_state) ==
    CASE old_state = "Safepoint" -> "Running"
      [] old_state = "ParkedSafepoint" -> "Parked"
      [] OTHER -> "panic"

\* The first loop of stop_threads without its body.
safepoint_requested_left(flags) == flags

\* The first loop of stop_threads: set_safepoint_requested on every thread.
set_safepoint_requested(flags) == [u \in DOMAIN flags |-> TRUE]

StopStep(version, current_state) ==
    IF version = "runtime" THEN stop_threads_step(current_state)
    ELSE legacy_stop_threads_step(current_state)

ResumeState(version, old_state) ==
    IF version = "runtime" THEN resume_state(old_state) ELSE legacy_resume_state(old_state)

NoReturn == [by |-> 0]

StwInit ==
    /\ stw_version \in Versions
    /\ threads_len \in 1..MaxThreads
    /\ thread_state = [t \in StwThreads |-> "Running"]
    /\ safepoint_requested = [t \in StwThreads |-> FALSE]
    /\ barrier = [armed |-> FALSE, stopped |-> 0]
    /\ threads_lock = 0
    /\ stw_pc = [t \in StwThreads |-> "run"]
    /\ stw_locals = [idx |-> 0, running |-> 0]
    /\ vm_state = "Running"
    /\ stops_begun = 0
    /\ found_running = {}
    /\ at_return = NoReturn
    /\ stw_status = "ok"
    /\ ShapeIdle
    /\ DivIdle
    /\ CacheIdle
    /\ CallIdle
    /\ IndexIdle
    /\ MasmIdle
    /\ StartIdle
    /\ OldIdle
    /\ PkgIdle
    /\ EmitIdle
    /\ VmIdle
    /\ VecIdle

\* What every step but a return from stop_the_world leaves alone.
StwStep(t, at) ==
    /\ stw_status = "ok"
    /\ t \in StwThreads
    /\ stw_pc[t] = at
    /\ at_return' = NoReturn
    /\ UNCHANGED <<stw_version, threads_len, notStwVars>>

Goto(t, to) == stw_pc' = [stw_pc EXCEPT ![t] = to]

\* The safepoint poll at function entry and loop back-edges: the byte is
\* compared with zero and the slow path taken when it is set.
Safepoint(t) ==
    /\ StwStep(t, "run")
    /\ safepoint_requested[t]
    /\ Goto(t, "safepoint_slow")
    /\ UNCHANGED <<thread_state, safepoint_requested, barrier, threads_lock, stw_locals,
                   vm_state, stops_begun, found_running, stw_status>>

\* safepoint_slow: the thread swaps its state to Safepoint.
SafepointSlow(t) ==
    /\ StwStep(t, "safepoint_slow")
    /\ thread_state' = [thread_state EXCEPT ![t] = "Safepoint"]
    /\ IF thread_state[t] \in {"SafepointRequested", "Running"}
       THEN Goto(t, "wait_in_safepoint") /\ UNCHANGED stw_status
       ELSE stw_status' = "panic" /\ UNCHANGED stw_pc
    /\ UNCHANGED <<safepoint_requested, barrier, threads_lock, stw_locals, vm_state,
                   stops_begun, found_running>>

\* Barrier::wait_in_safepoint: the thread is counted as stopped ...
WaitInSafepoint(t) ==
    /\ StwStep(t, "wait_in_safepoint")
    /\ barrier' = [barrier EXCEPT !.stopped = @ + 1]
    /\ Goto(t, "in_barrier")
    /\ UNCHANGED <<thread_state, safepoint_requested, threads_lock, stw_locals, vm_state,
                   stops_begun, found_running, stw_status>>

\* ... and waits until the barrier is disarmed.  The runtime version then
\* unparks the thread (resume_threads left it Parked).
LeaveBarrier(t) ==
    /\ StwStep(t, "in_barrier")
    /\ ~barrier.armed
    /\ Goto(t, IF stw_version = "runtime" THEN "unpark" ELSE "run")
    /\ UNCHANGED <<thread_state, safepoint_requested, barrier, threads_lock, stw_locals,
                   vm_state, stops_begun, found_running, stw_status>>

\* DoraThread::park before a blocking native call: Running -> Parked.  A
\* thread already asked to stop goes through the safepoint first.
Park(t) ==
    /\ StwStep(t, "run")
    /\ thread_state[t] = "Running"
    /\ thread_state' = [thread_state EXCEPT ![t] = "Parked"]
    /\ Goto(t, "native")
    /\ UNCHANGED <<safepoint_requested, barrier, threads_lock, stw_locals, vm_state,
                   stops_begun, found_running, stw_status>>

\* DoraThread::unpark: Parked -> Running; a ParkedSafepoint thread waits
\* until resume_threads has made it Parked again.
Unpark(t) ==
    /\ \/ StwStep(t, "native")
       \/ StwStep(t, "unpark")
    /\ thread_state[t] = "Parked"
    /\ thread_state' = [thread_state EXCEPT ![t] = "Running"]
    /\ Goto(t, "run")
    /\ UNCHANGED <<safepoint_requested, barrier, threads_lock, stw_locals, vm_state,
                   stops_begun, found_running, stw_status>>

\* stop_the_world: the requester parks itself (parked_scope, or park in the
\* legacy version) ...
StopTheWorldPark(t) ==
    /\ StwStep(t, "run")
    /\ thread_state[t] = "Running"
    /\ stops_begun < MaxStops
    /\ stops_begun' = stops_begun + 1
    /\ thread_state' = [thread_state EXCEPT ![t] = "Parked"]
    /\ Goto(t, "stw_lock")
    /\ UNCHANGED <<safepoint_requested, barrier, threads_lock, stw_locals, vm_state,
                   found_running, stw_status>>

\* A lock on the thread list that is granted whoever holds it.
lock_granted(holder) == TRUE

\* vm.threads.threads.lock(): the mutex is granted when no thread holds it.
lock(holder) == holder = 0

\* ... and locks the thread list; with a single thread it goes straight to
\* the operation.
StopTheWorldLock(t) ==
    /\ StwStep(t, "stw_lock")
    /\ lock(threads_lock)
    /\ threads_lock' = t
    /\ Goto(t, IF threads_len = 1 THEN "stw_invoke" ELSE "stw_arm")
    /\ UNCHANGED <<thread_state, safepoint_requested, barrier, stw_locals, vm_state,
                   stops_begun, found_running, stw_status>>

\* stop_threads: the barrier is armed,
StopThreadsArm(t) ==
    /\ StwStep(t, "stw_arm")
    /\ barrier' = [barrier EXCEPT !.armed = TRUE]
    /\ Goto(t, "stw_request")
    /\ UNCHANGED <<thread_state, safepoint_requested, threads_lock, stw_locals, vm_state,
                   stops_begun, found_running, stw_status>>

\* the safepoint byte of every thread is set,
StopThreadsRequest(t) ==
    /\ StwStep(t, "stw_request")
    /\ safepoint_requested' = set_safepoint_requested(safepoint_requested)
    /\ stw_locals' = [idx |-> 1, running |-> 0]
    /\ found_running' = {}
    /\ Goto(t, "stw_scan")
    /\ UNCHANGED <<thread_state, barrier, threads_lock, vm_state, stops_begun, stw_status>>

\* each thread's state is advanced by a compare-and-swap,
StopThreadsScan(t) ==
    /\ StwStep(t, "stw_scan")
    /\ LET u == stw_locals.idx
           step == StopStep(stw_version, thread_state[u])
       IN  IF step.next = "panic"
           THEN /\ stw_status' = "panic"
                /\ UNCHANGED <<thread_state, stw_locals, found_running, stw_pc>>
           ELSE /\ thread_state' = [thread_state EXCEPT ![u] = step.next]
                /\ stw_locals' = [idx |-> u + 1, running |-> stw_locals.running + step.running]
                /\ found_running' =
                      IF thread_state[u] \in {"Running", "Safepoint"}
                      THEN found_running \cup {u} ELSE found_running
                /\ Goto(t, IF u = threads_len THEN "stw_wait" ELSE "stw_scan")
                /\ UNCHANGED stw_status
    /\ UNCHANGED <<safepoint_requested, barrier, threads_lock, vm_state, stops_begun>>

\* and Barrier::wait_until_threads_stopped(running) waits until the number
\* of threads stopped at the barrier matches.
StopThreadsWait(t) ==
    /\ StwStep(t, "stw_wait")
    /\ barrier.stopped = stw_locals.running
    /\ Goto(t, "stw_invoke")
    /\ UNCHANGED <<thread_state, safepoint_requested, barrier, threads_lock, stw_locals,
                   vm_state, stops_begun, found_running, stw_status>>

\* invoke_safepoint_operation: the VM state is set to Safepoint around the
\* operation (the legacy version calls the operation directly).
OperationBegin(t) ==
    /\ StwStep(t, "stw_invoke")
    /\ IF stw_version = "runtime" /\ vm_state # "Running"
       THEN stw_status' = "panic" /\ UNCHANGED <<vm_state, stw_pc>>
       ELSE /\ vm_state' = IF stw_version = "runtime" THEN "Safepoint" ELSE vm_state
            /\ Goto(t, "stw_op")
            /\ UNCHANGED stw_status
    /\ UNCHANGED <<thread_state, safepoint_requested, barrier, threads_lock, stw_locals,
                   stops_begun, found_running>>

\* The operation has run.  On the single-thread path stop_the_world is done
\* but for unparking the requester; the runtime version drops the lock on the
\* thread list when the parked scope's closure returns.
OperationEnd(t) ==
    /\ StwStep(t, "stw_op")
    /\ IF stw_version = "runtime" /\ vm_state # "Safepoint"
       THEN stw_status' = "panic" /\ UNCHANGED <<vm_state, stw_pc, threads_lock>>
       ELSE /\ vm_state' = IF stw_version = "runtime" THEN "Running" ELSE vm_state
            /\ Goto(t, IF threads_len = 1 THEN "stw_unpark" ELSE "stw_resume")
            /\ threads_lock' = IF threads_len = 1 /\ stw_version = "runtime"
                               THEN 0 ELSE threads_lock
            /\ UNCHANGED stw_status
    /\ UNCHANGED <<thread_state, safepoint_requested, barrier, stw_locals, stops_begun,
                   found_running>>

\* resume_threads: the safepoint byte of every thread is cleared,
ResumeThreads(t) ==
    /\ StwStep(t, "stw_resume")
    /\ safepoint_requested' = [u \in StwThreads |-> FALSE]
    /\ stw_locals' = [idx |-> 1, running |-> stw_locals.running]
    /\ Goto(t, "stw_restore")
    /\ UNCHANGED <<thread_state, barrier, threads_lock, vm_state, stops_begun,
                   found_running, stw_status>>

\* each thread's state is restored, one thread after the other.  On a state
\* it does not expect the legacy version panics in the match, before the
\* compare-and-swap; the runtime version has swapped the state to Parked
\* when its assert fails.  The threads before it have been restored.
ResumeThreadsRestore(t) ==
    /\ StwStep(t, "stw_restore")
    /\ stw_locals.idx \in StwThreads
    /\ LET u == stw_locals.idx
           next_state == ResumeState(stw_version, thread_state[u])
       IN  IF next_state = "panic"
           THEN /\ stw_status' = "panic"
                /\ thread_state' = IF stw_version = "runtime"
                                   THEN [thread_state EXCEPT ![u] = "Parked"]
                                   ELSE thread_state
                /\ UNCHANGED <<stw_locals, stw_pc>>
           ELSE /\ thread_state' = [thread_state EXCEPT ![u] = next_state]
                /\ stw_locals' = [stw_locals EXCEPT !.idx = u + 1]
                /\ Goto(t, IF u = threads_len THEN "stw_disarm" ELSE "stw_restore")
                /\ UNCHANGED stw_status
    /\ UNCHANGED <<safepoint_requested, barrier, threads_lock, vm_state, stops_begun,
                   found_running>>

\* then the barrier is disarmed; the runtime version drops the lock on the
\* thread list when the parked scope's closure returns.
ResumeThreadsDisarm(t) ==
    /\ StwStep(t, "stw_disarm")
    /\ barrier' = [armed |-> FALSE, stopped |-> 0]
    /\ threads_lock' = IF stw_version = "runtime" THEN 0 ELSE threads_lock
    /\ Goto(t, "stw_unpark")
    /\ UNCHANGED <<thread_state, safepoint_requested, stw_locals, vm_state, stops_begun,
                   found_running, stw_status>>

\* The requester unparks and stop_the_world returns; the legacy version
\* drops the lock on the thread list only now.
StopTheWorldReturn(t) ==
    /\ stw_status = "ok"
    /\ t \in StwThreads
    /\ stw_pc[t] = "stw_unpark"
    /\ thread_state[t] = "Parked"
    /\ thread_state' = [thread_state EXCEPT ![t] = "Running"]
    /\ threads_lock' = IF stw_version = "legacy" THEN 0 ELSE threads_lock
    /\ Goto(t, "run")
    /\ at_return' = [by |-> t, states |-> thread_state', lock |-> threads_lock']
    /\ UNCHANGED <<safepoint_requested, barrier, stw_locals, vm_state, stops_begun,
                   found_running, stw_status, stw_version, threads_len, notStwVars>>

StwNext ==
    \/ \E t \in StwThreads : Safepoint(t)
    \/ \E t \in StwThreads : SafepointSlow(t)
    \/ \E t \in StwThreads : WaitInSafepoint(t)
    \/ \E t \in StwThreads : LeaveBarrier(t)
    \/ \E t \in StwThreads : Park(t)
    \/ \E t \in StwThreads : Unpark(t)
    \/ \E t \in StwThreads : StopTheWorldPark(t)
    \/ \E t \in StwThreads : StopTheWorldLock(t)
    \/ \E t \in StwThreads : StopThreadsArm(t)
    \/ \E t \in StwThreads : StopThreadsRequest(t)
    \/ \E t \in StwThreads : StopThreadsScan(t)
    \/ \E t \in StwThreads : StopThreadsWait(t)
    \/ \E t \in StwThreads : OperationBegin(t)
    \/ \E t \in StwThreads : OperationEnd(t)
    \/ \E t \in StwThreads : ResumeThreads(t)
    \/ \E t \in StwThreads : ResumeThreadsRestore(t)
    \/ \E t \in StwThreads : ResumeThreadsDisarm(t)
    \/ \E t \in StwThreads : StopTheWorldReturn(t)

SpecStw == StwInit /\ [][StwNext]_vars

(***************************************************************************)
(* Lazy compilation of direct calls (masm/x64.rs direct_call,              *)
(* baseline/dora_compile.rs compile_request and patch_fct_call).  A caller *)
(* function is emitted with its call sites; threads then run the call      *)
(* sequences against the data slots the sequences read.                    *)
(***************************************************************************)
MaxSites == 2

MaxCallers == 2

MaxDirectCalls == 3

REG_RESULT == RAX

\* Addresses: the compiler thunk, the caller's code, compiled functions.
ThunkAddress == 2^10

CallerStart == 2^12

\* The functions direct calls name, with their type arguments.
Callees == {[fct_id |-> 1, type_params |-> <<Int32>>],
            [fct_id |-> 2, type_params |-> <<>>]}

\* baseline::generate: the address of the callee's code, the same on every
\* request for the same function and type arguments.
generate(fct_id, type_params) ==
    2^13 + 2^8 * (2 * fct_id + (IF type_params = <<Int32>> THEN 1 ELSE 0))

\* Bytes of other instructions emitted before a call sequence.
PadSizes == {0, 3}

EmptyMasm == [pos |-> 0, dseg |-> <<>>, code |-> <<>>, sites |-> <<>>]

\* The data segment: a new 8-byte entry for each address added; an entry's
\* displacement is its distance below the start of the code.
add_addr(masm, ptr) == [masm EXCEPT !.dseg = Append(@, ptr)]

last_disp(masm) == ptr_width * Len(masm.dseg)

emit(masm, insn, length) ==
    [masm EXCEPT !.code = Append(@, [at |-> masm.pos, length |-> length, insn |-> insn]),
                 !.pos = @ + length]

\* load_constpool with a displacement that leaves out the load's own length.
load_constpool_from_start(masm, dest, disp) ==
    emit(masm, [op |-> "movq_ra", dest |-> dest, rip |-> -disp], 7)

\* load_constpool: a RIP-relative load of 7 bytes.
load_constpool(masm, dest, disp) ==
    emit(masm, [op |-> "movq_ra", dest |-> dest, rip |-> -(disp + 7)], 7)

call_reg(masm, reg) == emit(masm, [op |-> "call_r", dest |-> reg, rip |-> 0], 2)

emit_lazy_compilation_site(masm, site) ==
    [masm EXCEPT !.sites = Append(@, [offset |-> masm.pos, site |-> site])]

direct_call_site(masm, fct_id, disp, type_params) ==
    emit_lazy_compilation_site(
        masm, [fct_id |-> fct_id, disp |-> disp + masm.pos, type_params |-> type_params])

direct_call_load(masm, fct_id, disp, type_params) ==
    direct_call_site(
        call_reg(load_constpool(masm, REG_RESULT, disp + masm.pos), REG_RESULT),
        fct_id, disp, type_params)

direct_call(masm, fct_id, ptr, type_params) ==
    direct_call_load(add_addr(masm, ptr), fct_id, last_disp(add_addr(masm, ptr)), type_params)

emit_other(masm, length) ==
    IF length = 0 THEN masm ELSE emit(masm, [op |-> "other", dest |-> "", rip |-> 0], length)

\* The caller: per call site some other code, then the call sequence with
\* the compiler thunk as its initial target.
RECURSIVE EmitCaller(_, _, _)
EmitCaller(pads, callees, n) ==
    IF n = 0 THEN EmptyMasm
    ELSE direct_call(emit_other(EmitCaller(pads, callees, n - 1), pads[n]),
                     callees[n].fct_id, ThunkAddress, callees[n].type_params)

\* The data segment as installed below the code.
InstallDseg(masm) ==
    [a \in {CallerStart - ptr_width * i : i \in 1..Len(masm.dseg)} |->
        masm.dseg[(CallerStart - a) \div ptr_width]]

\* The instructions of call site s: its load and its call.
LoadOf(masm, s) ==
    CHOOSE i \in DOMAIN masm.code :
       /\ masm.code[i].insn.op = "movq_ra"
       /\ masm.code[i].at + 9 = masm.sites[s].offset

\* movq_ra: the address read is RIP after the instruction plus the
\* displacement.
LoadAddress(masm, s) ==
    CallerStart + masm.code[LoadOf(masm, s)].at + masm.code[LoadOf(masm, s)].length
        + masm.code[LoadOf(masm, s)].insn.rip

ReturnAddress(masm, s) == CallerStart + masm.sites[s].offset

\* compile_request: the site recorded at the return address's offset.
bailout(masm, ra) ==
    CHOOSE b \in {masm.sites[i] : i \in DOMAIN masm.sites} : b.offset = ra - CallerStart

\* patch_fct_call: the address of the slot to update.
fct_addr(ra, disp) == ra - disp

SiteIds == DOMAIN call_masm.sites

CallInit ==
    /\ \E n \in 1..MaxSites :
          \E pads \in [1..n -> PadSizes], callees \in [1..n -> Callees] :
             call_masm = EmitCaller(pads, callees, n)
    /\ call_mem = InstallDseg(call_masm)
    /\ caller = [t \in 1..MaxCallers |-> [pc |-> "idle", site |-> 0, target |-> 0,
                                         early |-> FALSE, fct_ptr |-> 0]]
    /\ thunk_entries = [s \in SiteIds |-> 0]
    /\ direct_entries = [s \in SiteIds |-> 0]
    /\ early_loads = [s \in SiteIds |-> 0]
    /\ resolved = {}
    /\ calls_begun = 0
    /\ call_status = "ok"
    /\ ShapeIdle
    /\ DivIdle
    /\ CacheIdle
    /\ StwIdle
    /\ IndexIdle
    /\ MasmIdle
    /\ StartIdle
    /\ OldIdle
    /\ PkgIdle
    /\ EmitIdle
    /\ VmIdle
    /\ VecIdle

CallStep(t, at) ==
    /\ call_status = "ok"
    /\ caller[t].pc = at
    /\ UNCHANGED <<call_masm, notCallVars>>

\* The call sequence's load: the target is read from the data slot.
LoadConstpool(t, s) ==
    /\ CallStep(t, "idle")
    /\ calls_begun < MaxDirectCalls
    /\ calls_begun' = calls_begun + 1
    /\ IF LoadAddress(call_masm, s) \in DOMAIN call_mem
       THEN /\ caller' = [caller EXCEPT ![t] =
                             [pc |-> "loaded", site |-> s,
                              target |-> call_mem[LoadAddress(call_masm, s)],
                              early |-> s \notin resolved, fct_ptr |-> 0]]
            /\ early_loads' = [early_loads EXCEPT ![s] = @ + (IF s \in resolved THEN 0 ELSE 1)]
            /\ UNCHANGED call_status
       ELSE /\ call_status' = "bad load"
            /\ UNCHANGED <<caller, early_loads>>
    /\ UNCHANGED <<call_mem, thunk_entries, direct_entries, resolved>>

\* The call through the register: into the compiler thunk, or straight
\* into the compiled function, which returns.
CallReg(t) ==
    /\ CallStep(t, "loaded")
    /\ IF caller[t].target = ThunkAddress
       THEN /\ thunk_entries' = [thunk_entries EXCEPT ![caller[t].site] = @ + 1]
            /\ caller' = [caller EXCEPT ![t].pc = "compile_request"]
            /\ UNCHANGED direct_entries
       ELSE /\ direct_entries' = [direct_entries EXCEPT ![caller[t].site] = @ + 1]
            /\ caller' = [caller EXCEPT ![t].pc = "idle"]
            /\ UNCHANGED thunk_entries
    /\ UNCHANGED <<call_mem, early_loads, resolved, calls_begun, call_status>>

\* compile_request and patch_fct_call up to the generated code: the site is
\* found from the return address and its callee compiled.
CompileRequest(t) ==
    /\ CallStep(t, "compile_request")
    /\ LET b == bailout(call_masm, ReturnAddress(call_masm, caller[t].site))
       IN  caller' = [caller EXCEPT ![t].pc = "patch",
                                    ![t].fct_ptr = generate(b.site.fct_id, b.site.type_params)]
    /\ UNCHANGED <<call_mem, thunk_entries, direct_entries, early_loads, resolved,
                   calls_begun, call_status>>

\* patch_fct_call: the function pointer is stored into the data segment;
\* the thunk then jumps to the function, which returns to the caller.
PatchFctCall(t) ==
    /\ CallStep(t, "patch")
    /\ LET ra == ReturnAddress(call_masm, caller[t].site)
           b == bailout(call_masm, ra)
       IN  IF fct_addr(ra, b.site.disp) \in DOMAIN call_mem
           THEN /\ call_mem' = [call_mem EXCEPT ![fct_addr(ra, b.site.disp)] = caller[t].fct_ptr]
                /\ UNCHANGED call_status
           ELSE /\ call_status' = "bad store"
                /\ UNCHANGED call_mem
    /\ resolved' = resolved \cup {caller[t].site}
    /\ caller' = [caller EXCEPT ![t].pc = "idle"]
    /\ UNCHANGED <<thunk_entries, direct_entries, early_loads, calls_begun>>

DirectCallLoad == \E t \in DOMAIN caller : \E s \in SiteIds : LoadConstpool(t, s)

DirectCallCall == \E t \in DOMAIN caller : CallReg(t)

ThunkCompileRequest == \E t \in DOMAIN caller : CompileRequest(t)

ThunkPatchFctCall == \E t \in DOMAIN caller : PatchFctCall(t)

CallNext ==
    \/ DirectCallLoad
    \/ DirectCallCall
    \/ ThunkCompileRequest
    \/ ThunkPatchFctCall

SpecCall == CallInit /\ [][CallNext]_vars

(***************************************************************************)
(* The array bounds check (check_index_out_of_bounds of both macro         *)
(* assemblers): the sequence it emits, executed on a register file with    *)
(* the flags cmp sets.  dora-runtime compares 64-bit values, the older     *)
(* assembler 32-bit values.                                                *)
(***************************************************************************)
MaxArrayLen == 3

MasmVersions == {"dora-runtime", "src"}

\* Arrays store their length immediately after the header.
offset_of_array_length == Header_size

\* Where the array of the check lives.
ArrayAddress == 2^8

load_mem(mode, dest, mem) == Insn("load_mem", is64(mode), dest, mem.base, mem.disp, "")

Mem_Base(base, disp) == [base |-> base, disp |-> disp]

\* The check with a signed comparison in place of the unsigned one.
check_index_out_of_bounds_signed(version, array, index, temp) ==
    <<load_mem(IF version = "dora-runtime" THEN "Int64" ELSE "Int32", temp,
               Mem_Base(array, offset_of_array_length)),
      cmp_rr(version = "dora-runtime", index, temp),
      jcc("GreaterEq", "lbl"),
      rest>>
    \o emit_bailout("lbl", "INDEX_OUT_OF_BOUNDS")

\* The instructions check_index_out_of_bounds emits, followed by the bailout
\* stub; temp is the scratch register in dora-runtime and the caller's
\* temporary in the older assembler.
check_index_out_of_bounds(version, array, index, temp) ==
    <<load_mem(IF version = "dora-runtime" THEN "Int64" ELSE "Int32", temp,
               Mem_Base(array, offset_of_array_length)),
      cmp_rr(version = "dora-runtime", index, temp),
      jcc("UnsignedGreaterEq", "lbl"),
      rest>>
    \o emit_bailout("lbl", "INDEX_OUT_OF_BOUNDS")

\* The flags cmp sets from lhs - rhs.
cmp_flags(lhs, rhs) ==
    [cf |-> ~UGe(lhs, rhs),
     zf |-> lhs = rhs,
     sf |-> IsNegative(Sub(lhs, rhs)),
     of |-> IsNegative(lhs) # IsNegative(rhs)
            /\ IsNegative(Sub(lhs, rhs)) # IsNegative(lhs)]

\* convert_into_condition and the flags each condition tests.
condition_holds(cond, flags) ==
    CASE cond = "UnsignedGreaterEq" -> ~flags.cf
      [] cond = "UnsignedGreater" -> ~flags.cf /\ ~flags.zf
      [] cond = "UnsignedLess" -> flags.cf
      [] cond = "UnsignedLessEq" -> flags.cf \/ flags.zf
      [] cond = "GreaterEq" -> flags.sf = flags.of
      [] cond = "Greater" -> ~flags.zf /\ flags.sf = flags.of
      [] cond = "Less" -> flags.sf # flags.of
      [] cond = "LessEq" -> flags.zf \/ flags.sf # flags.of
      [] cond \in {"Equal", "Zero"} -> flags.zf
      [] cond \in {"NotEqual", "NonZero"} -> ~flags.zf

IndexLimbs(version) == IF version = "dora-runtime" THEN 4 ELSE 2

\* Index values: around zero and the length, and the extremes of the width.
IndexValues(k) ==
    {Word(i, k) : i \in -2..(MaxArrayLen + 1)} \cup {MinValue(k), MaxValue(k)}

\* Array lengths: never negative.
LengthValues(k) == {Word(n, k) : n \in 0..MaxArrayLen} \cup {MaxValue(k)}

IndexInputs ==
    UNION {[version : {v}, array : {"RAX"}, index : {"RCX"}, temp : {scratch},
            index_val : IndexValues(IndexLimbs(v)),
            length_val : LengthValues(IndexLimbs(v)),
            junk : {Zeros(4), Ones(4)}] : v \in MasmVersions}

IndexCode ==
    check_index_out_of_bounds(index_in.version, index_in.array, index_in.index,
                              index_in.temp)

\* Registers at entry: the array's address and the index in their registers
\* (a 32-bit index below an unspecified upper half), the rest unspecified.
IndexInitialRegs(in) ==
    [r \in Regs |->
        IF r = in.array THEN Word(ArrayAddress, 4)
        ELSE IF r = in.index THEN in.index_val \o Low(in.junk, 4 - Len(in.index_val))
        ELSE in.junk]

\* The array's length field, eight bytes wide.
IndexHeap(in) ==
    [a \in {ArrayAddress + offset_of_array_length} |-> ZeroExtend(in.length_val, 4)]

IndexAt(op) == index_status = "running" /\ IndexCode[index_pc].op = op

IndexInit ==
    /\ index_in \in IndexInputs
    /\ index_regs = IndexInitialRegs(index_in)
    /\ index_flags = [cf |-> index_in.junk # Zeros(4), zf |-> FALSE,
                      sf |-> index_in.junk # Zeros(4), of |-> FALSE]
    /\ index_pc = 1
    /\ index_status = "running"
    /\ ShapeIdle
    /\ DivIdle
    /\ CacheIdle
    /\ StwIdle
    /\ CallIdle
    /\ MasmIdle
    /\ StartIdle
    /\ OldIdle
    /\ PkgIdle
    /\ EmitIdle
    /\ VmIdle
    /\ VecIdle

\* mov dest, [base + disp]: the 32-bit form reads four bytes and clears the
\* upper half of dest.
IndexLoadMem ==
    /\ IndexAt("load_mem")
    /\ index_regs' = WriteReg(index_regs, IndexCode[index_pc].a, IndexCode[index_pc].x64,
                              IndexHeap(index_in)[index_regs[IndexCode[index_pc].b][1]
                                                  + IndexCode[index_pc].imm])
    /\ index_pc' = Fall(IndexCode, index_pc + 1)
    /\ UNCHANGED <<index_in, index_flags, index_status, notIndexVars>>

IndexCmpRR ==
    /\ IndexAt("cmp_rr")
    /\ index_flags' = cmp_flags(Low(index_regs[IndexCode[index_pc].a],
                                    OperandLimbs(IndexCode[index_pc].x64)),
                                Low(index_regs[IndexCode[index_pc].b],
                                    OperandLimbs(IndexCode[index_pc].x64)))
    /\ index_pc' = Fall(IndexCode, index_pc + 1)
    /\ UNCHANGED <<index_in, index_regs, index_status, notIndexVars>>

IndexJcc ==
    /\ IndexAt("jcc")
    /\ index_pc' = IF condition_holds(IndexCode[index_pc].a, index_flags)
                   THEN Fall(IndexCode, LabelPos(IndexCode, IndexCode[index_pc].target))
                   ELSE Fall(IndexCode, index_pc + 1)
    /\ UNCHANGED <<index_in, index_regs, index_flags, index_status, notIndexVars>>

\* The bailout stub raises INDEX_OUT_OF_BOUNDS.
IndexBailout ==
    /\ IndexAt("trap")
    /\ index_status' = IndexCode[index_pc].a
    /\ UNCHANGED <<index_in, index_regs, index_flags, index_pc, notIndexVars>>

\* The check is passed: the element access follows.
IndexDone ==
    /\ IndexAt("rest")
    /\ index_status' = "passed"
    /\ UNCHANGED <<index_in, index_regs, index_flags, index_pc, notIndexVars>>

IndexNext == IndexLoadMem \/ IndexCmpRR \/ IndexJcc \/ IndexBailout \/ IndexDone

SpecIndex == IndexInit /\ [][IndexNext]_vars

(***************************************************************************)
(* Labels of the macro assembler (src/masm/x64.rs): the byte buffer, the   *)
(* label table and the forward jumps fixed when the buffer is finalized.   *)
(* Positions count from 0; byte p of the buffer is data[p + 1].            *)
(***************************************************************************)
MaxLabels == 2

MaxEmits == 4

Labels == 1..MaxLabels

\* The filler byte the tests put between a jump and its label (0x11).
ByteValues == {17}

\* The four bytes of the 32-bit value diff as u32, least significant first.
u32_bytes(diff) ==
    <<Word(diff, 2)[1] % 256, Word(diff, 2)[1] \div 256,
      Word(diff, 2)[2] % 256, Word(diff, 2)[2] \div 256>>

\* The 4-byte field at position at, read as a signed 32-bit number.
i32_at(data, at) ==
    ToInt(<<data[at + 1] + 256 * data[at + 2], data[at + 3] + 256 * data[at + 4]>>)

write_u32(data, at, val) ==
    [i \in 1..Len(data) |->
        IF i \in (at + 1)..(at + 4) THEN u32_bytes(val)[i - at] ELSE data[i]]

ForwardJump(at, to) == [at |-> at, to |-> to]

\* emit_label for a label that is bound: the distance back from the end of
\* the field.
backward_diff(pos, target) == 0 - ((pos + 4) - target)

\* The distance of a forward jump measured from the start of its field.
forward_diff_from_field_start(target, at) == target - at

\* fix_forward_jumps: the distance from the end of the field to the label.
forward_diff(target, at) == target - at - 4

\* fix_forward_jumps over the jumps from the n-th on; an unbound label
\* panics ("label not defined").
RECURSIVE fix_forward_jumps(_, _, _, _)
fix_forward_jumps(data, labels, jumps, n) ==
    IF n > Len(jumps)
    THEN [panic |-> FALSE, data |-> data]
    ELSE IF labels[jumps[n].to] = NoId
    THEN [panic |-> TRUE, data |-> data]
    ELSE fix_forward_jumps(write_u32(data, jumps[n].at,
                                     forward_diff(unwrap(labels[jumps[n].to]),
                                                  jumps[n].at)),
                           labels, jumps, n + 1)

MasmInit ==
    /\ masm_data = <<>>
    /\ masm_labels = <<>>
    /\ masm_jumps = <<>>
    /\ masm_refs = {}
    /\ masm_emits = 0
    /\ masm_status = "open"
    /\ ShapeIdle
    /\ DivIdle
    /\ CacheIdle
    /\ StwIdle
    /\ CallIdle
    /\ IndexIdle
    /\ StartIdle
    /\ OldIdle
    /\ PkgIdle
    /\ EmitIdle
    /\ VmIdle
    /\ VecIdle

MasmOpen == masm_status = "open"

\* create_label: a new, unbound label.
CreateLabel ==
    /\ MasmOpen
    /\ Len(masm_labels) < MaxLabels
    /\ masm_labels' = Append(masm_labels, NoId)
    /\ UNCHANGED <<masm_data, masm_jumps, masm_refs, masm_emits, masm_status,
                   notMasmVars>>

\* bind_label: the label is bound to the current position.
BindLabel ==
    /\ MasmOpen
    /\ \E lbl \in DOMAIN masm_labels :
        /\ masm_labels[lbl] = NoId
        /\ masm_labels' = [masm_labels EXCEPT ![lbl] = Some(Len(masm_data))]
    /\ UNCHANGED <<masm_data, masm_jumps, masm_refs, masm_emits, masm_status,
                   notMasmVars>>

EmitU8 ==
    /\ MasmOpen
    /\ masm_emits < MaxEmits
    /\ \E b \in ByteValues : masm_data' = Append(masm_data, b)
    /\ masm_emits' = masm_emits + 1
    /\ UNCHANGED <<masm_labels, masm_jumps, masm_refs, masm_status, notMasmVars>>

\* emit_label: the four bytes of a reference to lbl at the current position.
EmitLabel ==
    /\ MasmOpen
    /\ masm_emits < MaxEmits
    /\ \E lbl \in DOMAIN masm_labels :
        /\ IF masm_labels[lbl] # NoId
           THEN /\ masm_data' = masm_data
                                \o u32_bytes(backward_diff(Len(masm_data),
                                                           unwrap(masm_labels[lbl])))
                /\ UNCHANGED masm_jumps
           ELSE /\ masm_data' = masm_data \o u32_bytes(0)
                /\ masm_jumps' = Append(masm_jumps, ForwardJump(Len(masm_data), lbl))
        /\ masm_refs' = masm_refs
                        \cup {[at |-> Len(masm_data), to |-> lbl,
                               forward |-> masm_labels[lbl] = NoId]}
    /\ masm_emits' = masm_emits + 1
    /\ UNCHANGED <<masm_labels, masm_status, notMasmVars>>

\* data(): the buffer is finalized, the forward jumps are fixed.
Finalize ==
    /\ MasmOpen
    /\ masm_data' = fix_forward_jumps(masm_data, masm_labels, masm_jumps, 1).data
    /\ masm_status' = IF fix_forward_jumps(masm_data, masm_labels, masm_jumps, 1).panic
                      THEN "panic"
                      ELSE "finalized"
    /\ UNCHANGED <<masm_labels, masm_jumps, masm_refs, masm_emits, notMasmVars>>

MasmNext == CreateLabel \/ BindLabel \/ EmitU8 \/ EmitLabel \/ Finalize

SpecMasm == MasmInit /\ [][MasmNext]_vars

(***************************************************************************)
(* The driver (dora/src/driver/start.rs): start() from the parsed          *)
(* arguments to the exit code, over small programs.  A function of the     *)
(* program is known by its definition and by what running it does: it      *)
(* returns a value, or raises a trap that aborts the process.              *)
(***************************************************************************)
MaxFcts == 2

\* Names are sequences of characters.
MainName == <<"m", "a", "i", "n">>

TestNames == {<<"t", "1">>, <<"t", "2">>}

ProgramPackage == 1

StdlibPackage == 0

Returns(value) == [kind |-> "return", value |-> value]

Raises(trap) == [kind |-> "trap", trap |-> trap]

FctDefinition(name, package_id, is_test, params, type_params, return_type, body) ==
    [name |-> name, package_id |-> package_id, is_test |-> is_test,
     params |-> params, type_params |-> type_params, return_type |-> return_type,
     body |-> body]

\* Functions named main: the two accepted signatures with bodies that
\* return or trap, and signatures find_main rejects.
MainFcts ==
    {FctDefinition(MainName, ProgramPackage, FALSE, 0, 0, ret, body) :
        ret \in {Unit, Int32}, body \in {Returns(0), Returns(7), Raises("DIV0")}}
    \cup {FctDefinition(MainName, ProgramPackage, FALSE, sig[1], sig[2], sig[3], Returns(7)) :
            sig \in {<<0, 0, Bool>>, <<1, 0, Unit>>, <<0, 1, Int32>>, <<1, 1, Int64>>}}

\* Other functions: tests that pass or fail, tests with a parameter or a
\* type parameter, functions without @Test, tests of another package.
TestFcts ==
    {FctDefinition(name, ProgramPackage, TRUE, sig[1], sig[2], Unit, body) :
        name \in TestNames, sig \in {<<0, 0>>, <<1, 0>>, <<0, 1>>},
        body \in {Returns(0), Raises("ASSERT")}}
    \cup {FctDefinition(name, ProgramPackage, FALSE, 0, 0, Unit, Returns(0)) :
            name \in TestNames}
    \cup {FctDefinition(name, StdlibPackage, TRUE, 0, 0, Unit, Returns(0)) :
            name \in TestNames}

\* The programs: up to MaxFcts functions, no name defined twice.
Programs ==
    {p \in SeqUpTo(MainFcts \cup TestFcts, MaxFcts) :
        \A i, j \in DOMAIN p : p[i].name = p[j].name => i = j}

Args(command, flag_check, flag_test_filter) ==
    [error |-> FALSE, flag_version |-> FALSE, flag_help |-> FALSE,
     command |-> command, flag_check |-> flag_check,
     flag_test_filter |-> flag_test_filter]

\* The command lines: a line that does not parse, --version, --help, a run
\* and a test with and without --check, and a test with --test-filter.
ArgsSet ==
    {[Args("run", FALSE, NoId) EXCEPT !.error = TRUE],
     [Args("run", FALSE, NoId) EXCEPT !.flag_version = TRUE],
     [Args("run", FALSE, NoId) EXCEPT !.flag_help = TRUE],
     Args("build", FALSE, NoId)}
    \cup {Args(command, flag_check, NoId) :
            command \in {"run", "test"}, flag_check \in BOOLEAN}
    \cup {Args("test", FALSE, Some(filter)) : filter \in {<<"t">>, <<"t", "1">>, <<"2">>}}

\* The front end finds errors in the program, or none.
StartInputs ==
    [args : ArgsSet, fcts : Programs, check_errors : {0}]
    \cup [args : {Args("run", FALSE, NoId), Args("test", FALSE, NoId)},
          fcts : {p \in Programs : Len(p) <= 1}, check_errors : {1, 2}]

is_test(command) == command = "test"

is_build(command) == command = "build"

is_unit(ty) == ty = Unit

is_int32(ty) == ty = Int32

\* str::contains: the filter occurs in the name.
contains(name, filter) ==
    \E i \in 0..(Len(name) - Len(filter)) : SubSeq(name, i + 1, i + Len(filter)) = filter

\* The displayable name of a function of the program module.
display_fct(fcts, fct_id) == fcts[fct_id].name

\* The function table of the program module, looked up by name.
get_fct(fcts, name) ==
    IF \E id \in DOMAIN fcts : fcts[id].package_id = ProgramPackage /\ fcts[id].name = name
    THEN Some(CHOOSE id \in DOMAIN fcts :
                  fcts[id].package_id = ProgramPackage /\ fcts[id].name = name)
    ELSE NoId

WrongMainDefinition == "WrongMainDefinition"

\* find_main without the test of the type parameters.
find_main_ignoring_type_params(fcts, args) ==
    IF is_test(args.command) THEN [fct |-> NoId, report |-> <<>>]
    ELSE IF get_fct(fcts, MainName) = NoId THEN [fct |-> NoId, report |-> <<>>]
    ELSE IF \/ (~is_unit(fcts[unwrap(get_fct(fcts, MainName))].return_type)
                /\ ~is_int32(fcts[unwrap(get_fct(fcts, MainName))].return_type))
            \/ fcts[unwrap(get_fct(fcts, MainName))].params # 0
    THEN [fct |-> NoId, report |-> <<WrongMainDefinition>>]
    ELSE [fct |-> get_fct(fcts, MainName), report |-> <<>>]

\* find_main: the function it returns and what it reports.
find_main(fcts, args) ==
    IF is_test(args.command) THEN [fct |-> NoId, report |-> <<>>]
    ELSE IF get_fct(fcts, MainName) = NoId THEN [fct |-> NoId, report |-> <<>>]
    ELSE IF \/ (~is_unit(fcts[unwrap(get_fct(fcts, MainName))].return_type)
                /\ ~is_int32(fcts[unwrap(get_fct(fcts, MainName))].return_type))
            \/ fcts[unwrap(get_fct(fcts, MainName))].params # 0
            \/ fcts[unwrap(get_fct(fcts, MainName))].type_params # 0
    THEN [fct |-> NoId, report |-> <<WrongMainDefinition>>]
    ELSE [fct |-> get_fct(fcts, MainName), report |-> <<>>]

is_test_fct(fct) == fct.is_test

test_filter_matches(args, fcts, fct_id) ==
    IF args.flag_test_filter = NoId THEN TRUE
    ELSE contains(display_fct(fcts, fct_id), unwrap(args.flag_test_filter))

\* The test of the loop in run_tests: the function is skipped.
run_tests_skips(input, fct_id) ==
    \/ input.fcts[fct_id].package_id # ProgramPackage
    \/ ~is_test_fct(input.fcts[fct_id])
    \/ ~test_filter_matches(input.args, input.fcts, fct_id)

\* run_main's exit code, always the value the call returned.
run_main_result_always(return_type, res) == res

\* run_main's exit code from main's return type and the value the call of
\* main returned.
run_main_exit_code(return_type, res) == IF is_unit(return_type) THEN 0 ELSE res

\* run_tests' exit code.
run_tests_exit_code(n_tests, n_passed) == IF n_tests = n_passed THEN 0 ELSE 1

\* The exit status of a process a trap aborts.
TrapCodes == [DIV0 |-> 1, ASSERT |-> 2]

trap_exit_code(trap) == 100 + TrapCodes[trap]

\* The address of the VM start() creates.
vm_address == null + 1

MaxGetVmCalls == 3

VmCall(fn, asserted) == [fn |-> fn, asserted |-> asserted]

\* set_vm: the pointer after the call, and whether its debug_assert held.
set_vm(global, vm) == [global |-> vm, asserted |-> global = null]

\* get_vm: the VM it returns.
get_vm(global) == [vm |-> global, asserted |-> global # null]

\* A clear_vm that leaves the pointer as it is.
clear_vm_left(global) == [global |-> global, asserted |-> global # null]

\* clear_vm
clear_vm(global) == [global |-> null, asserted |-> global # null]

\* start, line 81: the VM is installed.
InstallVm ==
    /\ VM_GLOBAL' = set_vm(VM_GLOBAL, vm_address).global
    /\ vm_calls' = Append(vm_calls, VmCall("set_vm", set_vm(VM_GLOBAL, vm_address).asserted))

\* start, line 98: the pointer is cleared before start returns.
ClearVm ==
    /\ VM_GLOBAL' = clear_vm(VM_GLOBAL).global
    /\ vm_calls' = Append(vm_calls, VmCall("clear_vm", clear_vm(VM_GLOBAL).asserted))

\* execute_on_main, first statement: `let vm = get_vm();`
ExecuteOnMain ==
    /\ vm_calls' = Append(vm_calls, VmCall("get_vm", get_vm(VM_GLOBAL).asserted))
    /\ UNCHANGED VM_GLOBAL

StartInit ==
    /\ start_in \in StartInputs
    /\ start_pc = "parse_arguments"
    /\ diag = <<>>
    /\ main_fct_id = NoId
    /\ fct_iter = 0
    /\ tests = 0
    /\ passed = 0
    /\ executed = <<>>
    /\ stdout = <<>>
    /\ exit_code = NoId
    /\ ShapeIdle
    /\ DivIdle
    /\ CacheIdle
    /\ StwIdle
    /\ CallIdle
    /\ IndexIdle
    /\ MasmIdle
    /\ OldIdle
    /\ PkgIdle
    /\ EmitIdle
    /\ VmIdle
    /\ VecIdle

\* The process ends with the exit code.
Exit(code, lines) ==
    /\ start_pc' = "exit"
    /\ exit_code' = Some(code)
    /\ stdout' = stdout \o lines

\* A panic, or a trap that aborts the process.
Abort(how, code, lines) ==
    /\ start_pc' = how
    /\ exit_code' = Some(code)
    /\ stdout' = stdout \o lines

StartGoto(to) ==
    /\ start_pc' = to
    /\ UNCHANGED <<exit_code, stdout>>

\* run_tests or run_main has returned the exit code to start, which goes on
\* to vm.threads.join_all() with the VM still installed.
RunReturned(code, lines) ==
    /\ start_pc' = "join_all"
    /\ exit_code' = Some(code)
    /\ stdout' = stdout \o lines

\* start, lines 12-31: the arguments are parsed.
ParseArguments ==
    /\ start_pc = "parse_arguments"
    /\ IF start_in.args.error
       THEN Exit(1, <<[line |-> "help"], [line |-> ""], [line |-> "msg"]>>)
       ELSE IF start_in.args.flag_version THEN Exit(0, <<[line |-> "dora v0.01b"]>>)
       ELSE IF start_in.args.flag_help THEN Exit(0, <<[line |-> "help"]>>)
       ELSE StartGoto("check")
    /\ UNCHANGED <<start_in, diag, main_fct_id, fct_iter, tests, passed, executed,
                   vmVars, notStartVars>>

\* start, lines 33-46: the front end checks the program.
Check ==
    /\ start_pc = "check"
    /\ diag' = [i \in 1..start_in.check_errors |-> "error"]
    /\ IF start_in.check_errors # 0 THEN Exit(1, <<>>) ELSE StartGoto("find_main")
    /\ UNCHANGED <<start_in, main_fct_id, fct_iter, tests, passed, executed,
                   vmVars, notStartVars>>

\* start, lines 48-52: find_main, then the errors it reported end the run.
FindMain ==
    /\ start_pc = "find_main"
    /\ main_fct_id' = find_main(start_in.fcts, start_in.args).fct
    /\ diag' = diag \o find_main(start_in.fcts, start_in.args).report
    /\ IF find_main(start_in.fcts, start_in.args).report # <<>>
       THEN Exit(1, <<>>)
       ELSE StartGoto("generate_bytecode")
    /\ UNCHANGED <<start_in, fct_iter, tests, passed, executed, vmVars, notStartVars>>

\* start, lines 58-89: bytecode is generated; --check stops here, a build
\* is unimplemented, otherwise the VM is created and installed and the
\* tests or main are run.
GenerateBytecode ==
    /\ start_pc = "generate_bytecode"
    /\ IF start_in.args.flag_check THEN Exit(0, <<>>) /\ UNCHANGED <<fct_iter, vmVars>>
       ELSE IF is_build(start_in.args.command)
       THEN Abort("panic", 101, <<>>) /\ UNCHANGED <<fct_iter, vmVars>>
       ELSE IF is_test(start_in.args.command)
       THEN StartGoto("run_tests") /\ UNCHANGED fct_iter /\ InstallVm
       ELSE StartGoto("run_main") /\ UNCHANGED fct_iter /\ InstallVm
    /\ UNCHANGED <<start_in, diag, main_fct_id, tests, passed, executed, notStartVars>>

\* run_tests, lines 120-124: execute_on_main is entered, which calls get_vm
\* before the loop over the functions starts.
RunTests ==
    /\ start_pc = "run_tests"
    /\ ExecuteOnMain
    /\ fct_iter' = 1
    /\ StartGoto("run_tests_loop")
    /\ UNCHANGED <<start_in, diag, main_fct_id, tests, passed, executed, notStartVars>>

\* run_tests, lines 125-139: one iteration of the loop over the functions
\* up to the call of run_test: a function that is not selected is skipped,
\* a test is counted, "test ... " is printed and the test starts to run.
RunTestsIter ==
    /\ start_pc = "run_tests_loop"
    /\ fct_iter <= Len(start_in.fcts)
    /\ IF run_tests_skips(start_in, fct_iter)
       THEN /\ fct_iter' = fct_iter + 1
            /\ UNCHANGED <<tests, executed, start_pc, exit_code, stdout>>
       ELSE /\ tests' = tests + 1
            /\ executed' = Append(executed, fct_iter)
            /\ start_pc' = "run_test"
            /\ stdout' = stdout \o <<[line |-> "test", fct |-> fct_iter]>>
            /\ UNCHANGED <<fct_iter, exit_code>>
    /\ UNCHANGED <<start_in, diag, main_fct_id, passed, vmVars, notStartVars>>

\* VM::run_test and run_tests, lines 140-142: the test that runs ends.  A
\* test that traps aborts the process; one that returns is counted as passed
\* and "ok" is printed.
RunTest ==
    /\ start_pc = "run_test"
    /\ IF start_in.fcts[fct_iter].body.kind = "trap"
       THEN /\ Abort("abort", trap_exit_code(start_in.fcts[fct_iter].body.trap),
                     <<[line |-> "trap", trap |-> start_in.fcts[fct_iter].body.trap]>>)
            /\ UNCHANGED <<passed, fct_iter>>
       ELSE /\ passed' = passed + 1
            /\ stdout' = stdout \o <<[line |-> "ok"]>>
            /\ fct_iter' = fct_iter + 1
            /\ start_pc' = "run_tests_loop"
            /\ UNCHANGED exit_code
    /\ UNCHANGED <<start_in, diag, main_fct_id, tests, executed, vmVars, notStartVars>>

\* run_tests, lines 146-158: the summary and the exit code.
RunTestsSummary ==
    /\ start_pc = "run_tests_loop"
    /\ fct_iter > Len(start_in.fcts)
    /\ RunReturned(run_tests_exit_code(tests, passed),
                   <<[line |-> "summary", tests |-> tests, passed |-> passed,
                      failed |-> tests - passed]>>)
    /\ UNCHANGED <<start_in, diag, main_fct_id, fct_iter, tests, passed, executed,
                   vmVars, notStartVars>>

\* start, line 88, and run_main, line 182: without a main the expect
\* panics; otherwise execute_on_main calls get_vm and main starts to run.
RunMain ==
    /\ start_pc = "run_main"
    /\ IF main_fct_id = NoId
       THEN Abort("panic", 101, <<>>) /\ UNCHANGED <<executed, vmVars>>
       ELSE /\ ExecuteOnMain
            /\ executed' = Append(executed, unwrap(main_fct_id))
            /\ StartGoto("vm_run")
    /\ UNCHANGED <<start_in, diag, main_fct_id, fct_iter, tests, passed, notStartVars>>

\* VM::run and run_main, lines 183-195: main ends.  A trap aborts the
\* process; otherwise the result of main becomes the exit code.
VmRun ==
    /\ start_pc = "vm_run"
    /\ IF start_in.fcts[unwrap(main_fct_id)].body.kind = "trap"
       THEN Abort("abort",
                  trap_exit_code(start_in.fcts[unwrap(main_fct_id)].body.trap),
                  <<[line |-> "trap",
                     trap |-> start_in.fcts[unwrap(main_fct_id)].body.trap]>>)
       ELSE RunReturned(run_main_exit_code(
                            start_in.fcts[unwrap(main_fct_id)].return_type,
                            start_in.fcts[unwrap(main_fct_id)].body.value), <<>>)
    /\ UNCHANGED <<start_in, diag, main_fct_id, fct_iter, tests, passed, executed,
                   vmVars, notStartVars>>

\* start, lines 91-100: the threads of the program have been joined, the
\* VM pointer is cleared and start returns the exit code.
JoinAll ==
    /\ start_pc = "join_all"
    /\ ClearVm
    /\ start_pc' = "exit"
    /\ UNCHANGED <<start_in, diag, main_fct_id, fct_iter, tests, passed, executed,
                   stdout, exit_code, notStartVars>>

\* compile_request and safepoint_slow: code of the program calls get_vm
\* while main or a test runs, and a thread the program has started calls it
\* between two tests and until start has joined it.  The calls of get_vm in
\* a run of the model are bounded.
GetVm ==
    /\ start_pc \in {"vm_run", "run_test", "run_tests_loop", "join_all"}
    /\ executed # <<>>
    /\ Cardinality({i \in DOMAIN vm_calls : vm_calls[i].fn = "get_vm"}) < MaxGetVmCalls
    /\ vm_calls' = Append(vm_calls, VmCall("get_vm", get_vm(VM_GLOBAL).asserted))
    /\ UNCHANGED <<VM_GLOBAL, startVars, notStartVars>>

StartNext ==
    \/ ParseArguments \/ Check \/ FindMain \/ GenerateBytecode
    \/ RunTests \/ RunTestsIter \/ RunTest \/ RunTestsSummary
    \/ RunMain \/ VmRun \/ JoinAll \/ GetVm

SpecStart == StartInit /\ [][StartNext]_vars

(***************************************************************************)
(* The old generation of the swiper collector (src/gc/swiper/old.rs): a    *)
(* bump-pointer allocator over the region total, shared by the threads,    *)
(* with a crossing map that has one first-object entry per card.  Cards    *)
(* and the heap are scaled down; the crossing map (gc::swiper::crossing)   *)
(* is modelled as the table its setter writes.                             *)
(***************************************************************************)
CARD_SIZE_BITS == 2

HeapCards == 3

MaxAllocs == 3

CARD_SIZE == 2^CARD_SIZE_BITS

AllocThreads == {1, 2}

\* The sizes requested: nothing, less than a card, a card, more than a
\* card and more than two cards.
AllocSizes == {0, 1, CARD_SIZE - 1, CARD_SIZE, CARD_SIZE + 1, 2 * CARD_SIZE + 1}

\* Region::new(old_start, old_end); the heap starts on a card boundary.
total == [start |-> 2 * CARD_SIZE, end |-> 2 * CARD_SIZE + HeapCards * CARD_SIZE]

Cards == 0..(HeapCards - 1)

\* An entry of the crossing map that set_first_object has not written.
NoEntry == [set |-> FALSE]

FirstObject(offset) == [set |-> TRUE, offset |-> offset]

\* OldGen::card_from_address
card_from_address(addr) == (addr - total.start) \div CARD_SIZE

\* OldGen::card_from
card_from(addr) == card_from_address(addr)

\* CrossingMap::address_of_card
address_of_card(card) == total.start + card * CARD_SIZE

\* CrossingMap::set_first_object
set_first_object(map, card, offset) == [map EXCEPT ![card] = FirstObject(offset)]

\* A compare-and-swap that stores without comparing.
exchange(current, old, new) == [ok |-> TRUE, value |-> new, seen |-> current]

\* AtomicUsize::compare_exchange_weak: on success the new value is stored;
\* on failure the value seen is returned.
compare_exchange_weak(current, old, new) ==
    IF current = old
    THEN [ok |-> TRUE, value |-> new, seen |-> current]
    ELSE [ok |-> FALSE, value |-> current, seen |-> current]

\* alloc, lines 48-57: the crossing map after the object [old, new).
alloc_crossing(map, old, new) ==
    IF (old \div CARD_SIZE) = (new \div CARD_SIZE)
    THEN IF (old % CARD_SIZE) = 0
         THEN set_first_object(map, card_from(old), 0)
         ELSE map
    ELSE set_first_object(map, card_from(new), new - address_of_card(card_from(new)))

\* alloc, lines 29-33: new = old + n does not fit.
alloc_exhausted(old, n) == old + n >= total.end

AllocCall(n, result) == [size |-> n, result |-> result]

OldInit ==
    /\ old_free = total.start
    /\ old_pc = [t \in AllocThreads |-> "idle"]
    /\ old_locals = [t \in AllocThreads |-> [size |-> 0, old |-> 0]]
    /\ crossing_map = [c \in Cards |-> NoEntry]
    /\ old_allocs = <<>>
    /\ old_begun = 0
    /\ ShapeIdle
    /\ DivIdle
    /\ CacheIdle
    /\ StwIdle
    /\ CallIdle
    /\ IndexIdle
    /\ MasmIdle
    /\ StartIdle
    /\ PkgIdle
    /\ EmitIdle
    /\ VmIdle
    /\ VecIdle

OldStep(t, at) ==
    /\ t \in AllocThreads
    /\ old_pc[t] = at
    /\ UNCHANGED notOldVars

\* alloc(n): the free pointer is loaded.
AllocLoad(t, n) ==
    /\ OldStep(t, "idle")
    /\ old_begun < MaxAllocs
    /\ old_begun' = old_begun + 1
    /\ old_locals' = [old_locals EXCEPT ![t] = [size |-> n, old |-> old_free]]
    /\ old_pc' = [old_pc EXCEPT ![t] = "loop"]
    /\ UNCHANGED <<old_free, crossing_map, old_allocs>>

\* The head of the loop finds no room: alloc returns null.
AllocNull(t) ==
    /\ OldStep(t, "loop")
    /\ alloc_exhausted(old_locals[t].old, old_locals[t].size)
    /\ old_allocs' = Append(old_allocs, AllocCall(old_locals[t].size, null))
    /\ old_pc' = [old_pc EXCEPT ![t] = "idle"]
    /\ UNCHANGED <<old_free, old_locals, crossing_map, old_begun>>

\* The compare-and-swap of the loop: it breaks out on success and goes
\* round with the value seen on failure.
AllocCompareExchange(t) ==
    /\ OldStep(t, "loop")
    /\ ~alloc_exhausted(old_locals[t].old, old_locals[t].size)
    /\ LET res == compare_exchange_weak(old_free, old_locals[t].old,
                                        old_locals[t].old + old_locals[t].size)
       IN  /\ old_free' = res.value
           /\ IF res.ok
              THEN /\ old_pc' = [old_pc EXCEPT ![t] = "crossing"]
                   /\ UNCHANGED old_locals
              ELSE /\ old_locals' = [old_locals EXCEPT ![t].old = res.seen]
                   /\ UNCHANGED old_pc
    /\ UNCHANGED <<crossing_map, old_allocs, old_begun>>

\* compare_exchange_weak may fail although the values match; the loop goes
\* round with the same value of old.
AllocSpuriousFailure(t) ==
    /\ OldStep(t, "loop")
    /\ ~alloc_exhausted(old_locals[t].old, old_locals[t].size)
    /\ old_free = old_locals[t].old
    /\ UNCHANGED oldVars

\* The crossing map is updated and alloc returns old.
AllocCrossing(t) ==
    /\ OldStep(t, "crossing")
    /\ crossing_map' = alloc_crossing(crossing_map, old_locals[t].old,
                                      old_locals[t].old + old_locals[t].size)
    /\ old_allocs' = Append(old_allocs, AllocCall(old_locals[t].size, old_locals[t].old))
    /\ old_pc' = [old_pc EXCEPT ![t] = "idle"]
    /\ UNCHANGED <<old_free, old_locals, old_begun>>

OldNext ==
    \/ \E t \in AllocThreads, n \in AllocSizes : AllocLoad(t, n)
    \/ \E t \in AllocThreads : AllocNull(t)
    \/ \E t \in AllocThreads : AllocCompareExchange(t)
    \/ \E t \in AllocThreads : AllocSpuriousFailure(t)
    \/ \E t \in AllocThreads : AllocCrossing(t)

SpecOld == OldInit /\ [][OldNext]_vars

(***************************************************************************)
(* Packages of the front end (language/sem_analysis/packages.rs): a        *)
(* package has a symbol table behind a read-write lock and a list of       *)
(* dependencies.  The symbol table (language::sym) is modelled as the map  *)
(* from names to symbols its get and insert work on.                       *)
(***************************************************************************)
MaxNames == 3

MaxAddCalls == 2

Names == 1..MaxNames

PackageIds == {1, 2}

ModuleIds == {1, 2}

\* Sym::Module(top_level_module_id)
SymModule(module_id) == [sym |-> "Module", id |-> module_id]

\* A symbol of the package's own: a function of the top-level module.
SymFct == [sym |-> "Fct", id |-> 0]

PackageDependency(name, package_id) == [name |-> name, package_id |-> package_id]

\* SymTable::get
SymTable_get(table, name) == IF name \in DOMAIN table THEN Some(table[name]) ELSE NoId

\* SymTable::insert: the table with the symbol, and the symbol replaced.
SymTable_insert(table, name, sym) ==
    [table |-> [n \in DOMAIN table \cup {name} |-> IF n = name THEN sym ELSE table[n]],
     old_value |-> SymTable_get(table, name)]

\* RwLock::write (parking_lot): granted when no guard is held.
write(guards) == guards = 0

\* The symbol tables add_dependency is called on: some names are taken by
\* the package's own symbols.
SymTables == UNION {[S -> {SymFct}] : S \in SUBSET Names}

PkgInit ==
    /\ pkg_table \in SymTables
    /\ pkg_table_lock = 0
    /\ pkg_dependencies = <<>>
    /\ pkg_pc = "idle"
    /\ pkg_call = <<>>
    /\ pkg_returned = <<>>
    /\ ShapeIdle
    /\ DivIdle
    /\ CacheIdle
    /\ StwIdle
    /\ CallIdle
    /\ IndexIdle
    /\ MasmIdle
    /\ StartIdle
    /\ OldIdle
    /\ EmitIdle
    /\ VmIdle
    /\ VecIdle

PkgStep(at) ==
    /\ pkg_pc = at
    /\ UNCHANGED notPkgVars

\* add_dependency, line 76: `let table = self.table.write()`; the guard
\* lives to the end of the function.
AddDependency(name, package_id, top_level_module_id) ==
    /\ PkgStep("idle")
    /\ Len(pkg_returned) < MaxAddCalls
    /\ write(pkg_table_lock)
    /\ pkg_table_lock' = pkg_table_lock + 1
    /\ pkg_call' = <<name, package_id, top_level_module_id>>
    /\ pkg_pc' = "get"
    /\ UNCHANGED <<pkg_table, pkg_dependencies, pkg_returned>>

\* Line 78: a name in the table returns false, and the guard is dropped.
AddDependencyGet ==
    /\ PkgStep("get")
    /\ IF SymTable_get(pkg_table, pkg_call[1]) # NoId
       THEN /\ pkg_returned' = Append(pkg_returned, FALSE)
            /\ pkg_table_lock' = pkg_table_lock - 1
            /\ pkg_pc' = "idle"
       ELSE /\ pkg_pc' = "write"
            /\ UNCHANGED <<pkg_returned, pkg_table_lock>>
    /\ UNCHANGED <<pkg_table, pkg_dependencies, pkg_call>>

\* Lines 81-88: `self.table.write().insert(..)` takes the write lock again;
\* when it is granted the symbol is inserted, the dependency pushed and true
\* returned, and otherwise the call waits for the lock.
AddDependencyInsert ==
    /\ PkgStep("write")
    /\ IF write(pkg_table_lock)
       THEN /\ pkg_table' = SymTable_insert(pkg_table, pkg_call[1],
                                            SymModule(pkg_call[3])).table
            /\ pkg_dependencies' =
                  Append(pkg_dependencies, PackageDependency(pkg_call[1], pkg_call[2]))
            /\ pkg_returned' = Append(pkg_returned, TRUE)
            /\ pkg_table_lock' = pkg_table_lock - 1
            /\ pkg_pc' = "idle"
       ELSE /\ pkg_pc' = "waits_for_write"
            /\ UNCHANGED <<pkg_table, pkg_dependencies, pkg_returned, pkg_table_lock>>
    /\ UNCHANGED pkg_call

PkgNext ==
    \/ \E name \in Names, package_id \in PackageIds, module_id \in ModuleIds :
          AddDependency(name, package_id, module_id)
    \/ AddDependencyGet
    \/ AddDependencyInsert

SpecPkg == PkgInit /\ [][PkgNext]_vars

(***************************************************************************)
(* Program emission of the front end (language/program.rs): emit_program   *)
(* builds the lists of the bytecode program from the tables of the         *)
(* semantic analysis.  Names are interned: a definition holds the index of *)
(* its name in the interner.                                               *)
(***************************************************************************)
MaxDefs == 2

\* The strings of the interner, by Name.
interner == <<"A", "B", "T">>

DefModuleIds == {0, 1}

\* EnumDefinition and TraitDefinition, as far as emit_program reads them.
Definition(name, module_id) == [name |-> name, module_id |-> module_id]

Definitions == {Definition(name, module_id) : name \in DOMAIN interner, module_id \in DefModuleIds}

\* Interner::str
interner_str(name) == interner[name]

\* convert_module_id: ModuleDefinitionId to ModuleId; the ids are far below
\* the range where the conversion to u32 fails.
convert_module_id(id) == [ModuleId |-> id]

EnumData(module_id, name) == [module_id |-> module_id, name |-> name]

TraitData(module_id, name) == [module_id |-> module_id, name |-> name]

\* create_enums: one EnumData per entry of sa.enums.
create_enums(tables) ==
    [i \in 1..Len(tables.enums) |->
        EnumData(convert_module_id(tables.enums[i].module_id),
                 interner_str(tables.enums[i].name))]

\* create_traits: the loop runs over sa.enums.
create_traits(tables) ==
    [i \in 1..Len(tables.enums) |->
        TraitData(convert_module_id(tables.enums[i].module_id),
                  interner_str(tables.enums[i].name))]

\* emit_program, the lists of enums and traits.
emit_program(tables) ==
    [emitted |-> TRUE, enums |-> create_enums(tables), traits |-> create_traits(tables)]

EmitInit ==
    /\ sa \in [enums : SeqUpTo(Definitions, MaxDefs), traits : SeqUpTo(Definitions, MaxDefs)]
    /\ program = [emitted |-> FALSE]
    /\ ShapeIdle
    /\ DivIdle
    /\ CacheIdle
    /\ StwIdle
    /\ CallIdle
    /\ IndexIdle
    /\ MasmIdle
    /\ StartIdle
    /\ OldIdle
    /\ PkgIdle
    /\ VmIdle
    /\ VecIdle

EmitProgram ==
    /\ ~program.emitted
    /\ program' = emit_program(sa)
    /\ UNCHANGED <<sa, notEmitVars>>

EmitNext == EmitProgram

SpecEmit == EmitInit /\ [][EmitNext]_vars

(***************************************************************************)
(* GrowableVec (dora-frontend/src/utils.rs) and SemAnalysis::add_fct       *)
(* (language/sem_analysis.rs): a vector behind a mutex that threads push   *)
(* to and ask for its length.  A call holds the mutex from its first       *)
(* statement until it returns.                                             *)
(***************************************************************************)
MaxVecCalls == 3

VecThreads == {1, 2}

VecValues == {7, 8}

\* A mutex that is granted whoever holds it.
elements_lock_granted(holder) == TRUE

\* self.elements.lock(): the mutex is granted when no thread holds it.
elements_lock(holder) == holder = 0

\* What a call returned: push and add_fct an index, len a length.
VecCall(fn, val, result) == [fn |-> fn, val |-> val, result |-> result]

\* An element: the value and the id stored in it (add_fct sets fct.id).
Element(val, id) == [val |-> val, id |-> id]

VecInit ==
    /\ vec_elements = <<>>
    /\ vec_lock = 0
    /\ vec_pc = [t \in VecThreads |-> "idle"]
    /\ vec_locals = [t \in VecThreads |-> [fn |-> "none", val |-> 0, idx |-> 0]]
    /\ vec_returned = <<>>
    /\ vec_begun = 0
    /\ ShapeIdle
    /\ DivIdle
    /\ CacheIdle
    /\ StwIdle
    /\ CallIdle
    /\ IndexIdle
    /\ MasmIdle
    /\ StartIdle
    /\ OldIdle
    /\ PkgIdle
    /\ EmitIdle
    /\ VmIdle

VecStep(t, at) ==
    /\ t \in VecThreads
    /\ vec_pc[t] = at
    /\ UNCHANGED notVecVars

\* push and add_fct, first statement: the mutex is locked.
VecLock(t, fn, val) ==
    /\ VecStep(t, "idle")
    /\ vec_begun < MaxVecCalls
    /\ elements_lock(vec_lock)
    /\ vec_lock' = t
    /\ vec_begun' = vec_begun + 1
    /\ vec_locals' = [vec_locals EXCEPT ![t] = [fn |-> fn, val |-> val, idx |-> 0]]
    /\ vec_pc' = [vec_pc EXCEPT ![t] = "len"]
    /\ UNCHANGED <<vec_elements, vec_returned>>

GrowableVecPush(t, val) == VecLock(t, "push", val)

AddFct(t, val) == VecLock(t, "add_fct", val)

\* `let idx = elements.len()`, `FctDefinitionId(fcts.len())`
VecIdx(t) ==
    /\ VecStep(t, "len")
    /\ vec_locals' = [vec_locals EXCEPT ![t].idx = Len(vec_elements)]
    /\ vec_pc' = [vec_pc EXCEPT ![t] = "push"]
    /\ UNCHANGED <<vec_elements, vec_lock, vec_returned, vec_begun>>

\* `elements.push(Arc::new(val))`; add_fct has stored the id in the
\* definition before.
VecPush(t) ==
    /\ VecStep(t, "push")
    /\ vec_elements' =
          Append(vec_elements,
                 Element(vec_locals[t].val,
                         IF vec_locals[t].fn = "add_fct"
                         THEN Some(vec_locals[t].idx) ELSE NoId))
    /\ vec_pc' = [vec_pc EXCEPT ![t] = "return"]
    /\ UNCHANGED <<vec_lock, vec_locals, vec_returned, vec_begun>>

\* The index is returned and the guard dropped.
VecReturn(t) ==
    /\ VecStep(t, "return")
    /\ vec_returned' =
          Append(vec_returned, VecCall(vec_locals[t].fn, vec_locals[t].val, vec_locals[t].idx))
    /\ vec_lock' = 0
    /\ vec_pc' = [vec_pc EXCEPT ![t] = "idle"]
    /\ UNCHANGED <<vec_elements, vec_locals, vec_begun>>

\* len(): the mutex is locked, the length read and the guard dropped.
GrowableVecLen(t) ==
    /\ VecStep(t, "idle")
    /\ vec_begun < MaxVecCalls
    /\ elements_lock(vec_lock)
    /\ vec_begun' = vec_begun + 1
    /\ vec_returned' = Append(vec_returned, VecCall("len", 0, Len(vec_elements)))
    /\ UNCHANGED <<vec_elements, vec_lock, vec_pc, vec_locals>>

VecNext ==
    \/ \E t \in VecThreads, val \in VecValues : GrowableVecPush(t, val)
    \/ \E t \in VecThreads, val \in VecValues : AddFct(t, val)
    \/ \E t \in VecThreads : VecIdx(t)
    \/ \E t \in VecThreads : VecPush(t)
    \/ \E t \in VecThreads : VecReturn(t)
    \/ \E t \in VecThreads : GrowableVecLen(t)

SpecVec == VecInit /\ [][VecNext]_vars

(***************************************************************************)
(* Properties of the shape layer.                                          *)
(***************************************************************************)
\* The variants of the enum request, read independently of enum_is_ptr.
AllNullary(vs) == \A i \in 1..Len(vs) : Len(vs[i]) = 0

OptionOfReference(vs, tps) ==
    /\ Len(vs) = 2
    /\ \E i, j \in 1..2 :
          /\ i # j
          /\ Len(vs[i]) = 0
          /\ Len(vs[j]) = 1
          /\ is_reference_type(specialize_bty(vs[j][1], tps))

\* C5: the layout of an enum instance is Int iff every variant is nullary,
\* Ptr iff there are exactly two variants, one without fields and one with a
\* single field of reference type, and Tagged in every other case.
EnumLayoutFollowsVariants ==
    shape_out.kind = "enum" =>
        /\ shape_out.layout \in {"Int", "Ptr", "Tagged"}
        /\ (shape_out.layout = "Int") <=> AllNullary(shape_in.def.variants)
        /\ (shape_out.layout = "Ptr") <=>
              OptionOfReference(shape_in.def.variants, shape_in.tps)
        /\ (shape_out.layout = "Tagged") <=>
              /\ ~AllNullary(shape_in.def.variants)
              /\ ~OptionOfReference(shape_in.def.variants, shape_in.tps)

\* An Option-like enum over a type parameter got the Ptr layout, with the
\* payload variant declared first.
EnumPtrLayoutChosen ==
    /\ shape_out.kind = "enum"
    /\ shape_out.layout = "Ptr"
    /\ shape_in.def.variants = << <<TypeParam(0)>>, <<>> >>

\* C8: the offsets of a concrete tuple are non-decreasing.
TupleOffsetsNonDecreasing ==
    shape_out.kind = "tuple" =>
        \A i \in 1..(Len(shape_out.offsets) - 1) :
            shape_out.offsets[i] <= shape_out.offsets[i + 1]

\* A tuple of three elements with padding and a nested tuple has been laid out.
TupleWithNestedElementLaidOut ==
    /\ shape_out.kind = "tuple"
    /\ shape_in.tps = <<UInt8, Tuple(<<Int32, ClassFoo>>), Int32>>
    /\ Len(shape_out.offsets) > 3

\* The offset determine_tuple_size's loop gives element i of subtypes.
element_offset(subtypes, i) ==
    align_i32(tuple_loop(subtypes, i - 1).size, align(subtypes[i]))

IsMultipleOf(n, m) == \E k \in 0..n : n = k * m

\* C9: the size of a concrete tuple reaches the end of every element, taken
\* from the offset the loop gave the element and from the element's entry in
\* offsets, and is a multiple of the tuple's alignment.
TupleSizeCoversElements ==
    shape_out.kind = "tuple" =>
        /\ \A i \in 1..Len(shape_in.tps) :
              /\ shape_out.size >= element_offset(shape_in.tps, i) + size(shape_in.tps[i])
              /\ shape_out.size >= shape_out.offsets[i] + size(shape_in.tps[i])
        /\ IsMultipleOf(shape_out.size, shape_out.align)

\* A tuple whose last element ends short of a multiple of the alignment has
\* been rounded up.
TuplePaddedAtEnd ==
    /\ shape_out.kind = "tuple"
    /\ shape_in.tps = <<Int64, UInt8>>
    /\ shape_out.size = 16

\* The offsets at which a value of type ty stored at offset holds a heap
\* reference: the value itself when it is a reference or an enum represented
\* by a pointer, and the reference slots of every field of a struct and of
\* every element of a tuple, at any depth.
RECURSIVE RefSlots(_, _)
RefSlots(ty, offset) ==
    CASE ty.k \in {"Ptr", "Class", "Trait", "Lambda"} -> {offset}
      [] ty.k = "Enum" ->
            IF create_enum_instance(ty.id, ty.args).layout = "Int" THEN {} ELSE {offset}
      [] ty.k = "Struct" ->
            UNION {RefSlots(f.ty, offset + f.offset) :
                      f \in Range(create_struct_instance(ty.id, ty.args).fields)}
      [] ty.k = "Tuple" ->
            UNION {RefSlots(ty.args[i], offset + element_offset(ty.args, i)) :
                      i \in 1..Len(ty.args)}
      [] OTHER -> {}

InstanceRefSlots(fields) == UNION {RefSlots(f.ty, f.offset) : f \in Range(fields)}

NoDuplicates(s) == \A i, j \in 1..Len(s) : i # j => s[i] # s[j]

\* C7: the ref_fields of a struct, class, enum-variant or trait-object
\* instance list every slot that holds a heap reference exactly once,
\* references inside tuple, struct and enum fields included, and nothing else.
RefFieldsCoverReferences ==
    shape_out.kind \in {"struct", "class"} =>
        /\ Range(shape_out.ref_fields) = InstanceRefSlots(shape_out.fields)
        /\ NoDuplicates(shape_out.ref_fields)

\* The class instance of a variant is built once: calls for the same
\* variant return the same id, the id is the one stored in edef.variants, and
\* class_instances holds one instance for each variant asked for.
VariantClassInstanceBuiltOnce ==
    shape_in.kind = "variant" =>
    /\ \A i, j \in DOMAIN shape_returned :
          shape_returned[i].variant_idx = shape_returned[j].variant_idx
             => shape_returned[i].id = shape_returned[j].id
    /\ \A i \in DOMAIN shape_returned :
          shape_edef.variants[shape_returned[i].variant_idx] = Some(shape_returned[i].id)
    /\ Len(shape_class_instances) =
          Cardinality({shape_returned[i].variant_idx : i \in DOMAIN shape_returned})

\* A class or trait-object request registers its instance in class_instances.
ClassInstanceRegistered ==
    (shape_in.kind \in {"class", "trait_object"} /\ shape_out # NoShape)
       => shape_class_instances = <<shape_out>>

\* A second call for a variant has returned the id of the first.
VariantClassInstanceReturnedAgain ==
    /\ Len(shape_returned) = 2
    /\ shape_returned[1] = shape_returned[2]
    /\ Len(shape_class_instances) = 1

(***************************************************************************)
(* Properties of the division sequence.                                    *)
(***************************************************************************)
\* The value the division has to leave in dest: in both modes the truncating
\* quotient or remainder of the operand words, and in 32-bit mode also the one
\* integer arithmetic gives.
ExpectedDivResult(in, value) ==
    /\ value = Low(IF in.op = "Div" THEN TruncDiv(in.lhs_val, in.rhs_val).quo
                   ELSE TruncDiv(in.lhs_val, in.rhs_val).rem, Len(in.lhs_val))
    /\ in.mode = "Int32" =>
          value = Word(IF in.op = "Div"
                       THEN TruncQuotInt(ToInt(in.lhs_val), ToInt(in.rhs_val))
                       ELSE TruncRemInt(ToInt(in.lhs_val), ToInt(in.rhs_val)), 2)

DivisorIsZero(in) == in.rhs_val = Zeros(Len(in.rhs_val))

MinByMinusOne(in) ==
    /\ in.lhs_val = MinValue(Len(in.lhs_val))
    /\ in.rhs_val = Word(-1, Len(in.rhs_val))

\* C10: once the sequence emitted for an integer Div or Mod has run, in 32-bit
\* and in 64-bit mode, it has trapped with DIV0 if the divisor is zero, with
\* OVERFLOW if the dividend is the minimum value and the divisor -1, and has
\* otherwise left the quotient or remainder in dest without trapping or
\* faulting.
DivTrapsOrDivides ==
    div_status \notin {"idle", "running"} =>
        /\ DivisorIsZero(div_in) => div_status = "DIV0"
        /\ MinByMinusOne(div_in) => div_status = "OVERFLOW"
        /\ (~DivisorIsZero(div_in) /\ ~MinByMinusOne(div_in)) =>
              /\ div_status = "done"
              /\ ExpectedDivResult(div_in,
                     Low(regs[div_in.dest], OperandLimbs(is64(div_in.mode))))

\* The 64-bit remainder of the minimum value by -1 has been refused with
\* OVERFLOW.
DivOverflowTrapped ==
    /\ div_status = "OVERFLOW"
    /\ div_in.mode = "Int64"
    /\ div_in.op = "Mod"
    /\ MinByMinusOne(div_in)

(***************************************************************************)
(* Properties of the specialization caches.                                *)
(***************************************************************************)
CacheRunning == cache_status # "idle"

\* The calls of a kind that have returned, and the instances pushed for it.
ReturnedOf(kinds) == {r \in returned : r.call.kind \in kinds}

PushedOf(kinds) == {i \in DOMAIN pushed : pushed[i].call.kind \in kinds}

\* Every call of these kinds returned the id its key is cached under, the
\* same one as every other call with that key; no key had two instances
\* pushed; the instance with that id is the one the key specifies; and the
\* insertion never found an entry in its way.
OneIdPerKey(kinds) ==
    /\ cache_status = "ok"
    /\ \A r1, r2 \in ReturnedOf(kinds) : r1.call = r2.call => r1.id = r2.id
    /\ \A r \in ReturnedOf(kinds) :
          /\ specializations[MapOf(r.call.kind)][CacheKey(r.call)] = Some(r.id)
          /\ r.id < Len(instances[VecOf(r.call.kind)])
          /\ instances[VecOf(r.call.kind)][r.id + 1] = InstanceOf(r.call)
    /\ \A i, j \in PushedOf(kinds) : pushed[i].call = pushed[j].call => i = j
    /\ \A m \in {MapOf(kind) : kind \in kinds} :
          \A key \in DOMAIN specializations[m] :
             specializations[m][key] # NoId =>
                \E i \in PushedOf(kinds) :
                   /\ CacheKey(pushed[i].call) = key
                   /\ MapOf(pushed[i].call.kind) = m
                   /\ specializations[m][key] = Some(pushed[i].id)

\* A thread holds the write lock and is about to look its key up the second
\* time, while another thread has inserted that key since the first lookup.
RaceResolvedByRecheck(kinds) ==
    \E t \in DOMAIN thread :
       /\ thread[t].pc = "locked"
       /\ thread[t].call.kind \in kinds
       /\ specializations[MapOf(thread[t].call.kind)][CacheKey(thread[t].call)] # NoId
       /\ \E r \in returned : r.call = thread[t].call

\* C3: create_struct_instance, create_enum_instance and create_class_instance
\* return the same instance id for the same (definition id, type arguments)
\* on every call, also when two threads call concurrently with the same key,
\* and the cache holds exactly one entry, for one pushed instance, per key.
SpecializationIdsStable ==
    CacheRunning => OneIdPerKey({"struct", "enum", "class"})

\* Witness of C3: two threads missed on the same struct, enum or class key;
\* one has inserted and returned, the other now holds the write lock.
SpecializationRaceAtRecheck ==
    CacheRunning /\ RaceResolvedByRecheck({"struct", "enum", "class"})

\* C6: ensure_class_instance_for_trait_object returns the same class instance
\* id for the same (trait, trait type arguments, object type) on every call,
\* also concurrently, and one class instance is created per key.
TraitObjectIdsStable ==
    CacheRunning => OneIdPerKey({"trait_object"})

\* Witness of C6: two threads missed on the same trait object key; one has
\* inserted and returned, the other now holds the write lock on trait_vtables.
TraitObjectRaceAtRecheck ==
    CacheRunning /\ RaceResolvedByRecheck({"trait_object"})

(***************************************************************************)
(* Properties of stop-the-world.                                           *)
(***************************************************************************)
StwRunning == stw_status # "idle"

RunningOrParked == {"Running", "Parked"}

\* A stop_the_world call has just returned.
JustReturned == StwRunning /\ at_return # NoReturn

\* The requester whose operation is executing, if any.
OperationRunning(r) == r \in StwThreads /\ stw_pc[r] = "stw_op"

\* C1 as amended: when stop_the_world returns, the requester is Running and
\* every thread is Running or Parked unless another requester has taken the
\* lock on the thread list since this call dropped it; and when
\* resume_threads has restored the threads, before the lock is dropped,
\* every thread is Running or Parked.  This holds for one thread and more.
StopTheWorldRestoresThreads ==
    /\ JustReturned =>
          /\ at_return.states[at_return.by] = "Running"
          /\ at_return.lock = 0 =>
                \A t \in StwThreads : at_return.states[t] \in RunningOrParked
    /\ StwRunning =>
          \A r \in StwThreads :
             stw_pc[r] = "stw_disarm" =>
                \A t \in StwThreads : thread_state[t] \in RunningOrParked

\* Witness of C1: a call returns with several threads registered, one of
\* them stopped at the barrier during the operation and not yet woken.
ReturnedWithThreadAtBarrier ==
    /\ JustReturned
    /\ at_return.lock = 0
    /\ \E t \in StwThreads : stw_pc[t] = "in_barrier"

\* C1 as stated: after stop_the_world returns every thread is Running or
\* Parked.
AllRunningOrParkedAtReturn ==
    JustReturned => \A t \in StwThreads : at_return.states[t] \in RunningOrParked

\* C2: while the operation executes no thread is Running or
\* SafepointRequested, and every thread stop_threads found running code has
\* switched itself to Safepoint and waits at the barrier.
AllAtSafepointsDuringOperation ==
    StwRunning =>
       \A r \in StwThreads :
          OperationRunning(r) =>
             /\ \A t \in StwThreads :
                   thread_state[t] \notin {"Running", "SafepointRequested"}
             /\ threads_len > 1 =>
                   \A t \in found_running :
                      thread_state[t] = "Safepoint" /\ stw_pc[t] = "in_barrier"

\* The same for the runtime version alone.
RuntimeAllAtSafepointsDuringOperation ==
    stw_version = "runtime" => AllAtSafepointsDuringOperation

(***************************************************************************)
(* Properties of lazy compilation.                                         *)
(***************************************************************************)
CallRunning == call_status # "idle"

\* The code a site's callee compiles to.
CompiledTarget(s) ==
    generate(call_masm.sites[s].site.fct_id, call_masm.sites[s].site.type_params)

\* What a site's load reads now; 0 where no data slot lies.
SlotRead(s) ==
    IF LoadAddress(call_masm, s) \in DOMAIN call_mem
    THEN call_mem[LoadAddress(call_masm, s)] ELSE 0

InThunk(t) == caller[t].pc \in {"compile_request", "patch"}

\* C4 as amended: a call enters the compiler thunk only if it loaded its
\* target before the site was patched, so a site's thunk entries are at most
\* one per thread; once patch_fct_call has stored the compiled function's
\* address into the slot the call sequence reads, every call that loads
\* afterwards goes straight to the compiled function, and no call reaches the
\* function before the site's first call has gone through the thunk.
ThunkEnteredOnlyBeforePatch ==
    CallRunning =>
       /\ call_status = "ok"
       /\ \A t \in DOMAIN caller :
             /\ InThunk(t) => caller[t].early
             /\ caller[t].pc = "loaded" /\ ~caller[t].early =>
                   caller[t].target = CompiledTarget(caller[t].site)
       /\ \A s \in SiteIds :
             /\ thunk_entries[s] <= early_loads[s]
             /\ thunk_entries[s] <= Cardinality(DOMAIN caller)
             /\ s \in resolved => SlotRead(s) = CompiledTarget(s)
             /\ s \notin resolved => SlotRead(s) = ThunkAddress
             /\ direct_entries[s] > 0 => s \in resolved /\ thunk_entries[s] > 0

\* Witness of C4: a site was resolved by its first call through the thunk
\* and a later call from it has gone straight to the compiled function.
LaterCallWentStraight ==
    /\ CallRunning
    /\ \E s \in SiteIds :
          s \in resolved /\ thunk_entries[s] = 1 /\ direct_entries[s] > 0

\* C4 as stated: the thunk is entered at most once per call site (and once
\* the site is resolved, exactly once).
ThunkEnteredOncePerSite ==
    CallRunning =>
       \A s \in SiteIds :
          /\ thunk_entries[s] <= 1
          /\ s \in resolved => thunk_entries[s] = 1

(***************************************************************************)
(* Properties of the array bounds check.                                   *)
(***************************************************************************)
\* a < b for unsigned words of the same length, from the top limb down.
RECURSIVE UnsignedLess(_, _, _)
UnsignedLess(a, b, i) ==
    IF i = 0 THEN FALSE
    ELSE IF a[i] # b[i] THEN a[i] < b[i]
    ELSE UnsignedLess(a, b, i - 1)

IndexChecked == index_status \in {"passed", "INDEX_OUT_OF_BOUNDS"}

IndexTrapped == index_status = "INDEX_OUT_OF_BOUNDS"

\* C11: the bounds check raises INDEX_OUT_OF_BOUNDS exactly when the index,
\* read as an unsigned number, is at least the length; so the index equal to
\* the length and every negative index trap, and every index from 0 below
\* the length passes.
IndexOutOfBoundsIffUnsignedGreaterEq ==
    IndexChecked =>
        /\ IndexTrapped
           <=> ~UnsignedLess(index_in.index_val, index_in.length_val,
                             Len(index_in.index_val))
        /\ index_in.index_val = index_in.length_val => IndexTrapped
        /\ IsNegative(index_in.index_val) => IndexTrapped
        /\ \A n \in 0..MaxArrayLen : \A i \in 0..(n - 1) :
               /\ index_in.index_val = Word(i, Len(index_in.index_val))
               /\ index_in.length_val = Word(n, Len(index_in.index_val))
               => ~IndexTrapped

\* An access a[len(a)] of a non-empty array has trapped.
IndexAtLengthTrapped ==
    /\ IndexTrapped
    /\ index_in.index_val = index_in.length_val
    /\ index_in.length_val # Zeros(Len(index_in.length_val))

(***************************************************************************)
(* Properties of the assembler's labels.                                   *)
(***************************************************************************)
Finalized == masm_status = "finalized"

\* The reference r encodes the distance from the byte after its field to
\* the position its label is bound to.
EncodesDistance(r) ==
    /\ masm_labels[r.to] # NoId
    /\ i32_at(masm_data, r.at) = unwrap(masm_labels[r.to]) - (r.at + 4)

\* C12: once the buffer is finalized every 4-byte label reference, forward
\* or backward, holds the signed distance in bytes from the first byte after
\* the field to the position of the label, bytes in between included.
LabelReferencesEncodeDistance ==
    Finalized => \A r \in masm_refs : EncodesDistance(r)

\* A finalized buffer with a forward and a backward reference, each with
\* bytes between the reference and its label.
ForwardAndBackwardWithGap ==
    /\ Finalized
    /\ \E r \in masm_refs : r.forward /\ unwrap(masm_labels[r.to]) > r.at + 4
    /\ \E r \in masm_refs : ~r.forward /\ unwrap(masm_labels[r.to]) < r.at

(***************************************************************************)
(* Properties of the driver.                                               *)
(***************************************************************************)
TestMode == is_test(start_in.args.command)

\* The process has ended: start has returned, or the process was aborted.
Ended == start_pc \in {"exit", "abort", "panic"}

\* find_main has been called and the errors it reported have been looked at.
FindMainDone ==
    /\ start_pc \notin {"parse_arguments", "check", "find_main"}
    /\ ~start_in.args.error
    /\ ~start_in.args.flag_version
    /\ ~start_in.args.flag_help
    /\ start_in.check_errors = 0

\* The functions that were run and returned, and those that trapped.
ExecutedFcts == Range(executed)

FailedFcts == {i \in ExecutedFcts : start_in.fcts[i].body.kind = "trap"}

\* main was run and has returned.
MainFinished ==
    /\ ~TestMode
    /\ start_pc = "exit"
    /\ executed # <<>>

\* C13: when main was run (not in test mode) and has finished, the exit code
\* is 0 if main's return type is Unit and the Int32 value main returned
\* otherwise.
RunMainExitCode ==
    MainFinished =>
        /\ executed = <<unwrap(get_fct(start_in.fcts, MainName))>>
        /\ exit_code = Some(IF start_in.fcts[executed[1]].return_type = Unit
                            THEN 0
                            ELSE start_in.fcts[executed[1]].body.value)

\* A main of type Int32 has returned 7 and the exit code is 7.
MainReturnedSeven ==
    /\ MainFinished
    /\ start_in.fcts[executed[1]].return_type = Int32
    /\ start_in.fcts[executed[1]].body.value = 7
    /\ exit_code = Some(7)

SummaryLines == {i \in DOMAIN stdout : stdout[i].line = "summary"}

\* C14: in test mode, when an executed test has failed, the run prints the
\* summary with F >= 1 failed and P = N - F passed and the exit code is not
\* zero; the exit code is 0 only when every executed test passed.
TestSummaryReportsFailures ==
    (TestMode /\ Ended /\ FindMainDone) =>
        /\ FailedFcts # {} =>
            /\ \E i \in SummaryLines :
                /\ stdout[i].tests = Len(executed)
                /\ stdout[i].failed = Cardinality(FailedFcts)
                /\ stdout[i].failed >= 1
                /\ stdout[i].passed = stdout[i].tests - stdout[i].failed
            /\ exit_code # Some(0)
        /\ exit_code = Some(0) => FailedFcts = {}

\* What the code does in place of C14: a summary is printed only when every
\* executed test returned, and then reports no failure and exits with 0; a
\* failing test aborts the process without a summary.
SummaryOnlyWhenAllPassed ==
    (TestMode /\ Ended /\ FindMainDone) =>
        /\ SummaryLines # {} =>
            /\ FailedFcts = {}
            /\ \A i \in SummaryLines : stdout[i].failed = 0
            /\ exit_code = Some(0)
        /\ FailedFcts # {} => SummaryLines = {} /\ exit_code # Some(0)

WellFormedMain(fct) ==
    /\ fct.params = 0
    /\ fct.type_params = 0
    /\ fct.return_type \in {Unit, Int32}

\* find_main accepts main exactly when it is well formed; any other main is
\* reported and ends the program with 1 before anything is run.
AcceptsExactlyWellFormedMain ==
    /\ main_fct_id # NoId
       <=> /\ get_fct(start_in.fcts, MainName) # NoId
           /\ WellFormedMain(start_in.fcts[unwrap(get_fct(start_in.fcts, MainName))])
    /\ main_fct_id # NoId => main_fct_id = get_fct(start_in.fcts, MainName)
    /\ (/\ get_fct(start_in.fcts, MainName) # NoId
        /\ ~WellFormedMain(start_in.fcts[unwrap(get_fct(start_in.fcts, MainName))]))
       => /\ WrongMainDefinition \in Range(diag)
          /\ start_pc = "exit"
          /\ exit_code = Some(1)
          /\ executed = <<>>

\* C15: unless the command is test, find_main accepts a function named main
\* of the program module exactly when it has no parameters, no type
\* parameters and return type Unit or Int32, and for any other main reports
\* WrongMainDefinition and returns no function, so that the program exits
\* with 1 without running; for the command test find_main returns no
\* function and reports nothing, whatever main looks like.
FindMainAcceptsWellFormedMainUnlessTest ==
    FindMainDone =>
        IF TestMode
        THEN main_fct_id = NoId /\ WrongMainDefinition \notin Range(diag)
        ELSE AcceptsExactlyWellFormedMain

\* A run of a program whose main is not well formed: reported, exit code 1,
\* nothing executed.
WrongMainReported ==
    /\ FindMainDone
    /\ ~TestMode
    /\ get_fct(start_in.fcts, MainName) # NoId
    /\ ~WellFormedMain(start_in.fcts[unwrap(get_fct(start_in.fcts, MainName))])
    /\ WrongMainDefinition \in Range(diag)
    /\ exit_code = Some(1)

\* C15 as stated, for every command: violated by the command test.
FindMainAcceptsExactlyWellFormedMain == FindMainDone => AcceptsExactlyWellFormedMain

\* The functions test discovery is specified to select.
SelectedTests ==
    {i \in DOMAIN start_in.fcts :
        /\ start_in.fcts[i].package_id = ProgramPackage
        /\ start_in.fcts[i].is_test
        /\ start_in.fcts[i].params = 0
        /\ start_in.fcts[i].type_params = 0
        /\ test_filter_matches(start_in.args, start_in.fcts, i)}

\* C16: in test mode run_tests executes and counts exactly the functions of
\* the program package annotated @Test that have no parameters and no type
\* parameters and whose displayable name contains the filter, if one is
\* given.
RunTestsExecutesSelectedTests ==
    (TestMode /\ FindMainDone) =>
        /\ ExecutedFcts \subseteq SelectedTests
        /\ tests = Cardinality(ExecutedFcts \cap SelectedTests)
        /\ SummaryLines # {} => ExecutedFcts = SelectedTests

\* What the code does in place of C16: the parameters and type parameters of
\* a function are not looked at.
RunTestsExecutesAnnotatedTests ==
    (TestMode /\ FindMainDone) =>
        /\ \A i \in ExecutedFcts :
            /\ start_in.fcts[i].package_id = ProgramPackage
            /\ start_in.fcts[i].is_test
            /\ test_filter_matches(start_in.args, start_in.fcts, i)
        /\ tests = Len(executed)
        /\ SummaryLines # {} =>
            ExecutedFcts = {i \in DOMAIN start_in.fcts : ~run_tests_skips(start_in, i)}

(***************************************************************************)
(* Properties of stop_threads and resume_threads.                          *)
(***************************************************************************)
\* stop_threads examines the thread stw_locals.idx in this step.
ScanStep ==
    /\ \E t \in StwThreads : stw_pc[t] = "stw_scan"
    /\ stw_locals' # stw_locals

\* The thread examined is advanced and counted as the claim says.
ScanAdvancesAndCounts ==
    /\ thread_state[stw_locals.idx] = "Running"
       => /\ thread_state'[stw_locals.idx] = "SafepointRequested"
          /\ stw_locals'.running = stw_locals.running + 1
    /\ thread_state[stw_locals.idx] = "Parked"
       => /\ thread_state'[stw_locals.idx] = "ParkedSafepoint"
          /\ stw_locals'.running = stw_locals.running
    /\ thread_state[stw_locals.idx] = "Safepoint"
       => /\ thread_state'[stw_locals.idx] = "Safepoint"
          /\ stw_locals'.running = stw_locals.running + 1

\* C17: stop_threads advances a thread observed Running to SafepointRequested
\* and counts it, advances a thread observed Parked to ParkedSafepoint and
\* does not count it, and counts a thread observed in Safepoint in the number
\* passed to wait_until_threads_stopped.
StopThreadsAdvancesAndCounts == [][ScanStep => ScanAdvancesAndCounts]_vars

\* What holds in place of C17: dora-runtime's stop_threads behaves so.
RuntimeStopThreadsAdvancesAndCounts ==
    [][(stw_version = "runtime" /\ ScanStep) => ScanAdvancesAndCounts]_vars

\* resume_threads restores the thread stw_locals.idx in this step.
ResumeStep ==
    \E t \in StwThreads :
        /\ stw_pc[t] = "stw_restore"
        /\ stw_pc'[t] # stw_pc[t] \/ stw_locals' # stw_locals \/ stw_status' = "panic"

\* The barrier is disarmed in this step.
DisarmStep == barrier.armed /\ ~barrier'.armed

\* The bytes are cleared, and the thread examined is found in Safepoint or
\* ParkedSafepoint and is made Parked.
ResumeRestoresToParked ==
    /\ stw_status' = "ok"
    /\ \A u \in StwThreads : ~safepoint_requested'[u]
    /\ thread_state[stw_locals.idx] \in {"Safepoint", "ParkedSafepoint"}
    /\ thread_state'[stw_locals.idx] = "Parked"

\* C18: after op, resume_threads clears safepoint_requested on every thread
\* and restores every thread from Safepoint and from ParkedSafepoint to
\* Parked, finding no thread in any other state; the barrier is disarmed
\* only after every thread has been restored.
ResumeThreadsRestoresToParked ==
    [][/\ ResumeStep => ResumeRestoresToParked
       /\ DisarmStep => \A u \in StwThreads :
                            thread_state[u] \notin {"Safepoint", "ParkedSafepoint"}]_vars

\* resume_threads has panicked on a thread left in SafepointRequested after
\* it had restored the threads before it.
ResumePanickedAfterRestoringSome ==
    /\ stw_status = "panic"
    /\ \E t \in StwThreads : stw_pc[t] = "stw_restore"
    /\ stw_locals.idx > 1
    /\ thread_state[stw_locals.idx] = "SafepointRequested"
    /\ \A u \in 1..(stw_locals.idx - 1) : thread_state[u] \in {"Running", "Parked"}

\* What holds in place of C18: dora-runtime's resume_threads behaves so.
RuntimeResumeThreadsRestoresToParked ==
    [][stw_version = "runtime"
       => /\ ResumeStep => ResumeRestoresToParked
          /\ DisarmStep => \A u \in StwThreads :
                               thread_state[u] \notin {"Safepoint", "ParkedSafepoint"}]_vars

\* stop_threads is in its second loop or waits for the barrier.
StopThreadsScanning == \E t \in StwThreads : stw_pc[t] \in {"stw_scan", "stw_wait"}

\* C19: stop_threads has armed the barrier and set safepoint_requested on
\* every thread before it reads or changes the state of any thread: before
\* the bytes are set no state has been advanced, and while states are
\* examined every byte is set, so that a thread found Running takes the
\* safepoint slow path at its next poll.
SafepointRequestedBeforeStatesExamined ==
    /\ (\E t \in StwThreads : stw_pc[t] = "stw_request")
       => /\ barrier.armed
          /\ \A u \in StwThreads :
                thread_state[u] \notin {"SafepointRequested", "ParkedSafepoint"}
    /\ StopThreadsScanning
       => /\ barrier.armed
          /\ \A u \in StwThreads : safepoint_requested[u]
          /\ \A u \in StwThreads :
                thread_state[u] = "SafepointRequested" /\ stw_pc[u] = "run"
                => safepoint_requested[u]

\* A thread found Running has polled and entered the slow path while
\* stop_threads is still examining or waiting.
FoundRunningInSlowPath ==
    /\ StopThreadsScanning
    /\ \E u \in StwThreads :
        /\ thread_state[u] = "SafepointRequested"
        /\ u \in found_running
        /\ stw_pc[u] = "safepoint_slow"

(***************************************************************************)
(* Properties of nested tuples.                                            *)
(***************************************************************************)
\* ConcreteTuple::contains_references
contains_references(concrete) == concrete.references # <<>>

\* The nested tuple element i of the tuple laid out has its references
\* among the outer tuple's, translated by the element's offset.
NestedReferencesTranslated(i) ==
    /\ \A r \in Range(get_concrete_tuple(shape_in.tps[i].args).references) :
          element_offset(shape_in.tps, i) + r \in Range(shape_out.references)
    /\ RefSlots(shape_in.tps[i], element_offset(shape_in.tps, i))
          \subseteq Range(shape_out.references)
    /\ RefSlots(shape_in.tps[i], 0) # {} => contains_references(shape_out)

\* C20: when an element of a tuple is itself a tuple, every reference offset
\* r of the nested tuple is among the outer tuple's references as
\* element_offset + r, the outer references have an entry for every
\* reference slot at any depth of the element, and contains_references() is
\* true whenever the nested element holds a reference.
NestedTupleReferencesTranslated ==
    shape_out.kind = "tuple" =>
        \A i \in 1..Len(shape_in.tps) :
            shape_in.tps[i].k = "Tuple" => NestedReferencesTranslated(i)

\* What the code does in place of C20: the translated reference offsets of a
\* nested tuple are appended to the outer tuple's offsets, after the
\* element's own offset, and its references are left as they were.
NestedTupleReferencesPushedToOffsets ==
    shape_out.kind = "tuple" =>
        /\ Len(shape_out.offsets) >= Len(shape_in.tps)
        /\ \A i \in 1..Len(shape_in.tps) :
            shape_in.tps[i].k = "Tuple" =>
                /\ \A r \in Range(get_concrete_tuple(shape_in.tps[i].args).references) :
                      element_offset(shape_in.tps, i) + r \in Range(shape_out.offsets)
                /\ tuple_loop(shape_in.tps, i).references
                      = tuple_loop(shape_in.tps, i - 1).references

(***************************************************************************)
(* Properties of stop-the-world: one operation at a time.                  *)
(***************************************************************************)
\* The positions of stop_the_world between the lock on the thread list and
\* the end of resume_threads.
InStopTheWorld(t) ==
    stw_pc[t] \in {"stw_arm", "stw_request", "stw_scan", "stw_wait", "stw_invoke",
                   "stw_op", "stw_resume", "stw_restore", "stw_disarm"}

\* A requester waits for the lock on the thread list.
WaitsForThreadsLock(t) == stw_pc[t] = "stw_lock"

\* The thread stop_threads examines next is in a state another call left.
MeetsLeftoverState(t) ==
    /\ stw_pc[t] = "stw_scan"
    /\ thread_state[stw_locals.idx] \in {"SafepointRequested", "ParkedSafepoint"}

\* C21: at most one stop-the-world operation is in progress at a time.  The
\* thread between stop_threads and the end of resume_threads holds the lock
\* on the thread list and is the only such thread, so no second requester
\* stops threads or runs its operation before the first has resumed them;
\* and stop_threads never meets a thread in SafepointRequested or
\* ParkedSafepoint, the states on which it panics.
OneStopTheWorldAtATime ==
    /\ \A t \in StwThreads : InStopTheWorld(t) => threads_lock = t
    /\ \A t, u \in StwThreads : InStopTheWorld(t) /\ InStopTheWorld(u) => t = u
    /\ \A t \in StwThreads : ~MeetsLeftoverState(t)
    /\ \A t \in StwThreads :
          WaitsForThreadsLock(t) /\ threads_lock # 0 =>
              thread_state[t] \in {"Parked", "ParkedSafepoint"}

\* A second requester waits for the lock while the first runs its operation
\* with every thread stopped.
SecondRequesterWaitsDuringOperation ==
    \E t, u \in StwThreads :
        /\ t # u
        /\ stw_pc[t] = "stw_op"
        /\ WaitsForThreadsLock(u)
        /\ thread_state[u] = "ParkedSafepoint"
        /\ stops_begun = 2

(***************************************************************************)
(* Properties of the old generation.                                       *)
(***************************************************************************)
\* The calls of alloc that returned memory.
Granted == {i \in 1..Len(old_allocs) : old_allocs[i].result # null}

\* The addresses [r, r + n) the i-th call owns.
Owned(i) == old_allocs[i].result..(old_allocs[i].result + old_allocs[i].size - 1)

AllocRangesDisjoint ==
    /\ \A i, j \in Granted : i # j => Owned(i) \cap Owned(j) = {}
    /\ \A i \in Granted : Owned(i) \subseteq total.start..(total.end - 1)
    /\ \A i \in Granted : old_allocs[i].result \in total.start..(total.end - 1)
    /\ old_free \in total.start..total.end

\* A step in which alloc returns null.
AllocReturnsNull ==
    /\ Len(old_allocs') = Len(old_allocs) + 1
    /\ old_allocs'[Len(old_allocs')].result = null

\* C22: concurrent calls of OldGen::alloc never hand out overlapping memory.
\* Every non-null result r for a request of n bytes owns [r, r + n), these
\* ranges are pairwise disjoint and inside [total.start, total.end), the
\* free pointer never exceeds total.end, and a call that returns null
\* leaves the free pointer unchanged.
AllocNeverOverlaps ==
    /\ []AllocRangesDisjoint
    /\ [][AllocReturnsNull => old_free' = old_free]_vars

\* Two threads were granted memory, the one that took the lower addresses
\* returning last, and a third call found no room.
ConcurrentAllocsGranted ==
    /\ \E i, j \in Granted :
          /\ i < j
          /\ old_allocs[i].size > 0
          /\ old_allocs[j].size > 0
          /\ old_allocs[j].result < old_allocs[i].result
    /\ \E k \in 1..Len(old_allocs) : old_allocs[k].result = null

\* Every call of alloc begun has returned.
AllAllocsCompleted == \A t \in AllocThreads : old_pc[t] = "idle"

\* The offsets within card c at which allocated objects start.
ObjectStarts(c) ==
    {old_allocs[i].result - address_of_card(c) :
        i \in {j \in Granted : card_from(old_allocs[j].result) = c}}

LowestOf(S) == CHOOSE x \in S : \A y \in S : x <= y

\* C23: once all calls of alloc have completed, for every card in which an
\* allocated object starts, the first-object entry of the card is the
\* offset within the card of the lowest object start in it.
CrossingMapRecordsFirstObject ==
    AllAllocsCompleted =>
        \A c \in Cards :
            ObjectStarts(c) # {} =>
                crossing_map[c] = FirstObject(LowestOf(ObjectStarts(c)))

\* The object at total.start leaves the first card.
FirstObjectLeavesCard ==
    \A i \in Granted :
        old_allocs[i].result = total.start => old_allocs[i].size >= CARD_SIZE

\* What the code does in place of C23: the entries are right but for the
\* first card, which alloc never writes when the object at total.start
\* leaves the card.
CrossingMapRecordsFirstObjectButAtStart ==
    AllAllocsCompleted =>
        \A c \in Cards :
            ObjectStarts(c) # {} =>
                \/ crossing_map[c] = FirstObject(LowestOf(ObjectStarts(c)))
                \/ c = 0 /\ crossing_map[c] = NoEntry /\ FirstObjectLeavesCard

(***************************************************************************)
(* Properties of packages.                                                 *)
(***************************************************************************)
\* add_dependency waits for the write lock on the table while it holds a
\* write guard on it.
WaitsForOwnTableLock == pkg_pc = "waits_for_write" /\ pkg_table_lock > 0

\* The name of the call in progress was in the table when it was called.
CalledWithKnownName == pkg_call[1] \in DOMAIN pkg_table

\* C24: add_dependency always returns.  For a name not yet in the symbol
\* table it inserts the module symbol, appends the dependency and returns
\* true; for a name already there it returns false and changes nothing.  It
\* never blocks waiting for a lock on its own symbol table.
AddDependencyAlwaysReturns ==
    /\ ~WaitsForOwnTableLock
    /\ pkg_pc = "write" => ~CalledWithKnownName
    /\ \A i \in 1..Len(pkg_dependencies) :
          /\ pkg_dependencies[i].name \in DOMAIN pkg_table
          /\ pkg_table[pkg_dependencies[i].name].sym = "Module"

\* What the code does in place of C24: a call returns only for a name that
\* is in the table already, with false, leaving table and dependencies as
\* they were; no dependency is ever added.
AddDependencyReturnsOnlyFalse ==
    /\ \A i \in 1..Len(pkg_returned) : pkg_returned[i] = FALSE
    /\ pkg_dependencies = <<>>
    /\ \A name \in DOMAIN pkg_table : pkg_table[name] = SymFct
    /\ pkg_pc = "idle" => pkg_table_lock = 0
    /\ pkg_pc \in {"write", "waits_for_write"} => ~CalledWithKnownName

(***************************************************************************)
(* Properties of the class instances of lambdas.                           *)
(***************************************************************************)
\* C25: ensure_class_instance_for_lambda returns the same class instance id
\* for the same (fct_id, type_params) on every call and creates at most one
\* class instance per key.
LambdaIdsStable ==
    CacheRunning =>
        /\ \A r1, r2 \in ReturnedOf({"lambda"}) : r1.call = r2.call => r1.id = r2.id
        /\ \A i, j \in PushedOf({"lambda"}) : pushed[i].call = pushed[j].call => i = j

\* What the code does in place of C25: every call pushes a class instance of
\* its own and returns the index of that instance.
LambdaInstancePerCall ==
    CacheRunning =>
        /\ \A i, j \in PushedOf({"lambda"}) : pushed[i].id = pushed[j].id => i = j
        /\ ReturnedOf({"lambda"}) = {pushed[i] : i \in PushedOf({"lambda"})}
        /\ \A r \in ReturnedOf({"lambda"}) :
              instances.class_instances[r.id + 1]
                  = ensure_class_instance_for_lambda(r.call.id, r.call.tps)

(***************************************************************************)
(* Properties of tuple offsets.                                            *)
(***************************************************************************)
\* Entry i of the offsets is the offset of element i, aligned for it.
OffsetOfElement(i) ==
    /\ shape_out.offsets[i] = element_offset(shape_in.tps, i)
    /\ IsMultipleOf(shape_out.offsets[i], max(align(shape_in.tps[i]), 1))

\* C26: the offsets of a concrete tuple have exactly one entry per element,
\* in declaration order; entry i is the byte offset of element i and a
\* multiple of the element's alignment, also when an element is a tuple.
TupleOffsetsOnePerElement ==
    shape_out.kind = "tuple" =>
        /\ Len(shape_out.offsets) = Len(shape_in.tps)
        /\ \A i \in 1..Len(shape_in.tps) : OffsetOfElement(i)

\* Element i is a tuple whose concrete tuple has references.
NestedWithReferences(i) ==
    /\ shape_in.tps[i].k = "Tuple"
    /\ get_concrete_tuple(shape_in.tps[i].args).references # <<>>

\* What the code does in place of C26: the entries are one per element and
\* the elements' offsets as long as no element is a tuple with references;
\* every such element adds an entry per reference after its own, which
\* shifts the entries of the elements that follow.
TupleOffsetsOnePerElementUnlessNested ==
    shape_out.kind = "tuple" =>
        /\ (\A i \in 1..Len(shape_in.tps) : ~NestedWithReferences(i)) =>
              /\ Len(shape_out.offsets) = Len(shape_in.tps)
              /\ \A i \in 1..Len(shape_in.tps) : OffsetOfElement(i)
        /\ (\E i \in 1..Len(shape_in.tps) : NestedWithReferences(i)) =>
              Len(shape_out.offsets) > Len(shape_in.tps)

(***************************************************************************)
(* Properties of the driver: the main function at run_main.                *)
(***************************************************************************)
\* start runs the program (not its tests) and the program module has no
\* function named main.
RunWithoutMain ==
    /\ ~start_in.args.error
    /\ ~is_test(start_in.args.command)
    /\ get_fct(start_in.fcts, MainName) = NoId

\* start is past find_main.
PastFindMain ==
    start_pc \in {"generate_bytecode", "run_main", "vm_run", "run_tests", "run_tests_loop",
                  "run_test", "join_all", "panic", "abort"}

\* C27: in run mode the id of the main function is present whenever start
\* reaches run_main.  A program without a function named main is rejected
\* with a reported error and exit code 1 before execution and never reaches
\* the expect("main missing") on the id.
MainPresentAtRunMain ==
    /\ start_pc = "run_main" => main_fct_id # NoId
    /\ RunWithoutMain => ~PastFindMain
    /\ RunWithoutMain /\ start_pc = "exit" /\ FindMainDone =>
          exit_code = Some(1) /\ diag # <<>>

\* What the code does in place of C27: the id is missing at run_main exactly
\* for a program without a function named main, for which find_main returns
\* None and reports nothing; a main of the wrong form is rejected with
\* exit code 1 before execution.
MainMissingOnlyWithoutMain ==
    /\ start_pc = "run_main" => (main_fct_id = NoId <=> RunWithoutMain)
    /\ RunWithoutMain => diag = <<>> \/ start_in.check_errors # 0
    /\ start_pc = "run_main" /\ main_fct_id # NoId =>
          WellFormedMain(start_in.fcts[unwrap(main_fct_id)])

(***************************************************************************)
(* Properties of program emission.                                         *)
(***************************************************************************)
\* C28: the trait list emit_program produces has exactly one TraitData per
\* trait definition, in trait-id order, with that trait's name and module
\* id; its length is the number of traits, not the number of enums.
TraitsEmittedFromTraitTable ==
    program.emitted =>
        /\ Len(program.traits) = Len(sa.traits)
        /\ \A i \in 1..Len(sa.traits) :
              /\ i \in DOMAIN program.traits
              /\ program.traits[i].name = interner_str(sa.traits[i].name)
              /\ program.traits[i].module_id = convert_module_id(sa.traits[i].module_id)

\* What the code does in place of C28: the trait list has one entry per
\* enum definition, with the enum's name and module id.
TraitsEmittedFromEnumTable ==
    program.emitted =>
        /\ Len(program.traits) = Len(sa.enums)
        /\ \A i \in 1..Len(sa.enums) :
              /\ program.traits[i].name = interner_str(sa.enums[i].name)
              /\ program.traits[i].module_id = convert_module_id(sa.enums[i].module_id)
        /\ Len(program.enums) = Len(sa.enums)
        /\ \A i \in 1..Len(sa.enums) :
              /\ program.enums[i].name = interner_str(sa.enums[i].name)
              /\ program.enums[i].module_id = convert_module_id(sa.enums[i].module_id)

(***************************************************************************)
(* Properties of the process-wide VM pointer.                              *)
(***************************************************************************)
\* The calls of fn made so far.
VmCallsOf(fn) == {i \in DOMAIN vm_calls : vm_calls[i].fn = fn}

\* start has returned.
StartReturned == start_pc = "exit"

\* C29: the process-wide VM pointer goes null, set, null once in a run.
\* set_vm is called only while the pointer is null, get_vm and clear_vm
\* only while it is set (their assertions hold), at most one VM is
\* installed, and an execution of start that called set_vm has called
\* clear_vm when it returns.
VmPointerSetOnceAndCleared ==
    /\ \A i \in DOMAIN vm_calls : vm_calls[i].asserted
    /\ Cardinality(VmCallsOf("set_vm")) <= 1
    /\ Cardinality(VmCallsOf("clear_vm")) <= Cardinality(VmCallsOf("set_vm"))
    /\ \A i \in VmCallsOf("get_vm") \cup VmCallsOf("clear_vm") :
          \E j \in VmCallsOf("set_vm") : j < i
    /\ \A i \in VmCallsOf("get_vm") : \A j \in VmCallsOf("clear_vm") : i < j
    /\ VM_GLOBAL \in {null, vm_address}
    /\ VM_GLOBAL # null <=> VmCallsOf("set_vm") # {} /\ VmCallsOf("clear_vm") = {}
    /\ StartReturned =>
          /\ VM_GLOBAL = null
          /\ Cardinality(VmCallsOf("clear_vm")) = Cardinality(VmCallsOf("set_vm"))

\* start has returned after the VM was installed, used through get_vm by
\* execute_on_main and by the running program, and cleared.
VmSetUsedAndCleared ==
    /\ StartReturned
    /\ VM_GLOBAL = null
    /\ [i \in DOMAIN vm_calls |-> vm_calls[i].fn]
          = <<"set_vm", "get_vm", "get_vm", "clear_vm">>

\* The program called get_vm while it ran and then trapped.
GetVmCalledBeforeTrap ==
    /\ start_pc = "abort"
    /\ [i \in DOMAIN vm_calls |-> vm_calls[i].fn] = <<"set_vm", "get_vm", "get_vm">>

\* Every run that has entered execute_on_main has called get_vm: no run
\* goes from set_vm to clear_vm, or to the trap of a test or of main,
\* without it.
GetVmCalledByExecuteOnMain ==
    (\/ start_pc \in {"run_tests_loop", "run_test", "vm_run", "join_all"}
     \/ VmCallsOf("clear_vm") # {}
     \/ start_pc = "abort")
       => VmCallsOf("get_vm") # {}

\* The run has produced its exit code and start waits for the program's
\* threads: the VM is still installed.
VmInstalledWhileJoining ==
    /\ start_pc = "join_all"
    /\ exit_code # NoId
    /\ VM_GLOBAL = vm_address

\* A run that a trap or the missing main ends after set_vm: the process
\* ends without start returning, and the pointer is still set.
VmLeftSetByAbortedRun ==
    /\ start_pc \in {"abort", "panic"}
    /\ VM_GLOBAL # null

(***************************************************************************)
(* Properties of GrowableVec.                                              *)
(***************************************************************************)
\* The calls of push and add_fct that have returned.
PushesReturned == {i \in DOMAIN vec_returned : vec_returned[i].fn \in {"push", "add_fct"}}

\* The number of pushes that had returned before the i-th return.
PushesBefore(i) == Cardinality({j \in PushesReturned : j < i})

\* The calls that have pushed their element and not yet returned.
PushesInFlight == {t \in DOMAIN vec_pc : vec_pc[t] = "return"}

\* The element a push that returned index idx stored is there.
StoredAt(idx, call) ==
    /\ idx < Len(vec_elements)
    /\ vec_elements[idx + 1].val = call.val
    /\ call.fn = "add_fct" => vec_elements[idx + 1].id = Some(idx)

\* C30: push returns the index at which the value was stored, the length
\* before the push.  The indices handed out are dense, 0, 1, 2, ... without
\* gap or duplicate, also when threads push concurrently; elements are never
\* removed; and len() is the number of pushes made so far.  add_fct gives
\* out its ids the same way.
GrowableVecIndicesDense ==
    /\ \A i \in PushesReturned :
          /\ vec_returned[i].result = PushesBefore(i)
          /\ StoredAt(vec_returned[i].result, vec_returned[i])
    /\ \A i, j \in PushesReturned :
          vec_returned[i].result = vec_returned[j].result => i = j
    /\ {vec_returned[i].result : i \in PushesReturned} = 0..(Cardinality(PushesReturned) - 1)
    /\ Len(vec_elements) = Cardinality(PushesReturned) + Cardinality(PushesInFlight)
    /\ \A i \in DOMAIN vec_returned :
          vec_returned[i].fn = "len" => vec_returned[i].result = PushesBefore(i)

\* Two threads have pushed, one through push and the other through add_fct,
\* and len() has then returned 2.
ConcurrentPushesThenLen ==
    /\ Len(vec_returned) = 3
    /\ vec_returned[3] = VecCall("len", 0, 2)
    /\ vec_returned[1].fn = "push"
    /\ vec_returned[2].fn = "add_fct"
    /\ vec_locals[1].fn # vec_locals[2].fn
    /\ vec_locals[1].fn # "none" /\ vec_locals[2].fn # "none"
    /\ vec_elements[1].val # vec_elements[2].val

====
